---- MODULE Spec2Model ----
(***************************************************************************)
(* Provisioning pipeline of mayaserver's jiva volume plugin on Nomad:      *)
(*   lib/volume/jiva/util.go          resolution and address allocation    *)
(*   lib/orchprovider/nomad/util.go   datacenter scoped default properties *)
(*   lib/orchprovider/nomad/helper_funcs.go   claim -> job transformation  *)
(*                                                                         *)
(* A Go string is a finite sequence of symbols; the empty string is <<>>.  *)
(* A label map is a total function over LabelKeys: Go yields "" for a key  *)
(* that is absent, and the code never tells absent from empty.             *)
(***************************************************************************)
EXTENDS Integers, Sequences, FiniteSets, TLC

VARIABLES
    pvc,        \* per call: the claim being provisioned (name, labels, requests)
    pc,         \* per call: the next step of ProvisionStorage
    err,        \* per call: the error ProvisionStorage returned, "" for none
    run,        \* per call: how many times ProvisionStorage ran on the claim
    dcArg,      \* per call: the datacenter setDC handed to setCS and setCN
    allocs,     \* per call: the GetAvailableIPs calls made so far, in order
    before,     \* per call: the labels on entry to the latest setCN
    pvc0,       \* per call: the labels as the caller supplied them
    snap,       \* per call: labels and allocation calls when run 1 resolved
    job,        \* per call: the job handed to the orchestrator
    status,     \* per call: the latest job to volume transformation and its result
    nomadConf,  \* the datacenter configuration of nomadUtil
    orchRegion, \* the region the orchestrator reports
    defaultDC,  \* the default datacenter of the volume plugin aspect
    orchFault,  \* what is wrong with the orchestrator lookup, "" for nothing
    inUse       \* the addresses of the network that are taken

vars == <<pvc, pc, err, run, dcArg, allocs, before, pvc0, snap, job, status,
          nomadConf, orchRegion, defaultDC, orchFault, inUse>>

-----------------------------------------------------------------------------
(* Bounds *)

\* number of usable host addresses of the modelled network
NumHosts == 3

\* largest replica count a claim or a datacenter configuration asks for
MaxReplica == 2

\* number of times ProvisionStorage is invoked on one and the same claim
MaxRuns == 2

-----------------------------------------------------------------------------
(* Strings *)

Empty == <<>>

S(x) == <<x>>

Comma == ","

Digits == <<"0", "1", "2", "3", "4", "5", "6", "7", "8", "9">>

DigitVal(ch) == (CHOOSE i \in 1..10 : Digits[i] = ch) - 1

IsDigit(ch) == \E i \in 1..10 : Digits[i] = ch

RECURSIVE DecVal(_)
DecVal(s) == IF s = <<>> THEN 0
             ELSE 10 * DecVal(SubSeq(s, 1, Len(s) - 1)) + DigitVal(s[Len(s)])

\* strconv.Itoa for the non-negative numbers of the model
RECURSIVE Itoa(_)
Itoa(n) == IF n < 10 THEN <<Digits[n + 1]>>
           ELSE Itoa(n \div 10) \o <<Digits[(n % 10) + 1]>>

\* strconv.Atoi: optional sign, then one or more decimal digits
AtoiOk(s) ==
    LET body == IF s # <<>> /\ s[1] \in {"-", "+"} THEN Tail(s) ELSE s
    IN  body # <<>> /\ \A i \in 1..Len(body) : IsDigit(body[i])

Atoi(s) ==
    LET neg  == s # <<>> /\ s[1] = "-"
        body == IF s # <<>> /\ s[1] \in {"-", "+"} THEN Tail(s) ELSE s
    IN  IF neg THEN 0 - DecVal(body) ELSE DecVal(body)

\* strings.TrimSuffix(s, ",")
TrimSuffixComma(s) ==
    IF s # <<>> /\ s[Len(s)] = Comma THEN SubSeq(s, 1, Len(s) - 1) ELSE s

\* strings.Split(s, ","): the fields between the commas; Split("") is [""]
RECURSIVE Split(_)
Split(s) ==
    IF \A i \in 1..Len(s) : s[i] # Comma THEN <<s>>
    ELSE LET p == CHOOSE i \in 1..Len(s) :
                      s[i] = Comma /\ \A j \in 1..(i - 1) : s[j] # Comma
         IN  <<SubSeq(s, 1, p - 1)>> \o Split(SubSeq(s, p + 1, Len(s)))

Range(f) == {f[i] : i \in DOMAIN f}

-----------------------------------------------------------------------------
(* Label keys, named after the constants of lib/api/v1 *)

JivaFrontEndImageLbl      == "JivaFrontEndImageLbl"
JivaFrontEndIPLbl         == "JivaFrontEndIPLbl"
JivaBackEndAllIPsLbl      == "JivaBackEndAllIPsLbl"
JivaBackEndVolSizeLbl     == "JivaBackEndVolSizeLbl"
JivaFrontEndVolSizeLbl    == "JivaFrontEndVolSizeLbl"
JivaTargetPortalLbl       == "JivaTargetPortalLbl"
JivaIqnLbl                == "JivaIqnLbl"
JivaBackEndIPPrefixLbl    == "JivaBackEndIPPrefixLbl"
RegionLbl                 == "RegionLbl"
DatacenterLbl             == "DatacenterLbl"
CSReplicaCountLbl         == "CSReplicaCountLbl"
CNTypeLbl                 == "CNTypeLbl"
CNNetworkCIDRAddrLbl      == "CNNetworkCIDRAddrLbl"
CNSubnetLbl               == "CNSubnetLbl"
CNInterfaceLbl            == "CNInterfaceLbl"
OrchRegionLbl             == "OrchRegionLbl"
OrchDCLbl                 == "OrchDCLbl"
PVPControllerImageLbl     == "PVPControllerImageLbl"
PVPControllerIPsLbl       == "PVPControllerIPsLbl"
PVPReplicaIPsLbl          == "PVPReplicaIPsLbl"
PVPReplicaCountLbl        == "PVPReplicaCountLbl"
PVPPersistenceLocationLbl == "PVPPersistenceLocationLbl"
PVPStorageSizeLbl         == "PVPStorageSizeLbl"

LabelKeys ==
    {JivaFrontEndImageLbl, JivaFrontEndIPLbl, JivaBackEndAllIPsLbl,
     RegionLbl, DatacenterLbl, CSReplicaCountLbl,
     CNTypeLbl, CNNetworkCIDRAddrLbl, CNSubnetLbl, CNInterfaceLbl,
     OrchRegionLbl, OrchDCLbl, PVPControllerImageLbl, PVPControllerIPsLbl,
     PVPReplicaIPsLbl, PVPReplicaCountLbl, PVPPersistenceLocationLbl,
     PVPStorageSizeLbl}

NoLabels == [k \in LabelKeys |-> Empty]

\* a Go map literal or a sequence of assignments: the keys of m win over old
Merge(old, m) == [k \in LabelKeys |-> IF k \in DOMAIN m THEN m[k] ELSE old[k]]

-----------------------------------------------------------------------------
(* lib/nethelper: the CIDR utility *)

AddrTable == <<"10.0.0.1", "10.0.0.2", "10.0.0.3", "10.0.0.4",
               "10.0.0.5", "10.0.0.6", "10.0.0.7", "10.0.0.8">>

NetCIDR == S("10.0.0.1/28")

BadCIDR == S("10.0.0.0/99")

\* the usable host range of a parsable network, ascending, without the
\* network and the broadcast address
Hosts(cidr) == IF cidr = NetCIDR THEN SubSeq(AddrTable, 1, NumHosts) ELSE <<>>

ParseCIDROk(cidr) == cidr = NetCIDR

\* nethelper.CIDRSubnet(networkCIDR) (string, error)
CIDRSubnet(cidr) ==
    IF ParseCIDROk(cidr) THEN [err |-> "", subnet |-> S("10.0.0.0/28")]
    ELSE [err |-> "InvalidCIDR", subnet |-> Empty]

RECURSIVE Filter(_, _)
Filter(s, used) ==
    IF s = <<>> THEN <<>>
    ELSE IF Head(s) \in used THEN Filter(Tail(s), used)
         ELSE <<Head(s)>> \o Filter(Tail(s), used)

\* nethelper.GetAvailableIPs(networkCIDR, count) ([]string, error): the
\* first count host addresses of the network that nobody answers on
GetAvailableIPs(cidr, count, used) ==
    LET free == Filter(Hosts(cidr), used)
    IN  IF ~ParseCIDROk(cidr) THEN [err |-> "InvalidCIDR", ips |-> <<>>]
        ELSE IF Len(free) < count
             THEN [err |-> "AddressPoolExhausted", ips |-> <<>>]
             ELSE [err |-> "", ips |-> SubSeq(free, 1, count)]

-----------------------------------------------------------------------------
(* lib/orchprovider/nomad/util.go: datacenter scoped defaults *)

DefaultNomadCNType == S("host")

DefaultNomadCNNetworkCIDR == NetCIDR

DefaultNomadCNInterface == S("enp0s8")

DefaultNomadCSPersistenceLocation == S("/tmp/")

DefaultNomadCSReplicaCount == S("2")

\* validateConf that takes the empty datacenter name like any other
validateConfAnyName(conf, dcName) ==
    IF conf.nil THEN "NilNomadConfig"
    ELSE IF conf.dcNil THEN "DCNotAvailable"
    ELSE IF dcName \notin DOMAIN conf.Datacenter THEN "NoDetailsForDC"
    ELSE ""

\* nomadUtil.validateConf
validateConf(conf, dcName) ==
    IF dcName = Empty THEN "DCNameEmpty"
    ELSE IF conf.nil THEN "NilNomadConfig"
    ELSE IF conf.dcNil THEN "DCNotAvailable"
    ELSE IF dcName \notin DOMAIN conf.Datacenter THEN "NoDetailsForDC"
    ELSE ""

getCNType(conf, dcName) ==
    IF conf.Datacenter[dcName].CNType = Empty THEN DefaultNomadCNType
    ELSE conf.Datacenter[dcName].CNType

getCNNetworkCIDR(conf, dcName) ==
    IF conf.Datacenter[dcName].CNNetworkCIDR = Empty
    THEN DefaultNomadCNNetworkCIDR
    ELSE conf.Datacenter[dcName].CNNetworkCIDR

\* getCNInterface that hands out whatever is configured
getCNInterfaceAsConfigured(conf, dcName) == conf.Datacenter[dcName].CNInterface

getCNInterface(conf, dcName) ==
    IF conf.Datacenter[dcName].CNInterface = Empty
    THEN DefaultNomadCNInterface
    ELSE conf.Datacenter[dcName].CNInterface

getCSPersistenceLocation(conf, dcName) ==
    IF conf.Datacenter[dcName].CSPersistenceLocation = Empty
    THEN DefaultNomadCSPersistenceLocation
    ELSE conf.Datacenter[dcName].CSPersistenceLocation

getCSReplicaCount(conf, dcName) ==
    LET c == conf.Datacenter[dcName].CSReplicaCount
    IN  IF c = Empty THEN [err |-> "", val |-> DefaultNomadCSReplicaCount]
        ELSE IF ~AtoiOk(c) THEN [err |-> "InvalidReplicaCount", val |-> Empty]
        ELSE IF Atoi(c) = 0 THEN [err |-> "ReplicaCountZero", val |-> Empty]
        ELSE [err |-> "", val |-> c]

NoProps == [k \in {} |-> Empty]

\* nomadUtil.CN
CN(conf, dcName) ==
    LET e == validateConf(conf, dcName)
    IN  IF e # "" THEN [err |-> e, m |-> NoProps]
        ELSE [err |-> "",
              m |-> (CNTypeLbl :> getCNType(conf, dcName))
                    @@ (CNNetworkCIDRAddrLbl :> getCNNetworkCIDR(conf, dcName))
                    @@ (CNInterfaceLbl :> getCNInterface(conf, dcName))]

\* nomadUtil.CS
CS(conf, dcName) ==
    LET e == validateConf(conf, dcName)
    IN  IF e # "" THEN [err |-> e, m |-> NoProps]
        ELSE LET rc == getCSReplicaCount(conf, dcName)
             IN  IF rc.err # "" THEN [err |-> rc.err, m |-> NoProps]
                 ELSE [err |-> "",
                       m |-> (PVPPersistenceLocationLbl :>
                                  getCSPersistenceLocation(conf, dcName))
                             @@ (PVPReplicaCountLbl :> rc.val)]

-----------------------------------------------------------------------------
(* The orchestrator behind the volume plugin aspect *)

\* aspect.GetOrchProvider()
GetOrchProvider(fault) == IF fault = "GetOrchProvider" THEN fault ELSE ""

\* orchestrator.StoragePlacements(), second result
StoragePlacements(fault) == fault # "NoStorageOps"

\* orchestrator.NetworkPlacements(), second result
NetworkPlacements(fault) == fault # "NoNetworkOps"

\* storageOrchestrator.StoragePropsReq(dc): the datacenter's storage defaults
StoragePropsReq(conf, dc) == CS(conf, dc)

\* networkOrchestrator.NetworkPropsReq(dc): the datacenter's network defaults
NetworkPropsReq(conf, dc) == CN(conf, dc)

-----------------------------------------------------------------------------
(* lib/volume/jiva/util.go *)

\* the labels of p replaced by l
WithLabels(p, l) == [p EXCEPT !.Labels = l]

\* FillIfEmpty without the test for a value that is already there
FillAlways(labels, m) ==
    [k \in LabelKeys |-> IF k \in DOMAIN m THEN m[k] ELSE labels[k]]

\* for k := range m { if pvc.Labels[k] == "" { pvc.Labels[k] = m[k] } }
FillIfEmpty(labels, m) ==
    [k \in LabelKeys |->
        IF k \in DOMAIN m /\ labels[k] = Empty THEN m[k] ELSE labels[k]]

\* jivaUtil.NetworkProps
NetworkProps(conf, fault, dc) ==
    IF GetOrchProvider(fault) # "" THEN [err |-> GetOrchProvider(fault), m |-> NoProps]
    ELSE IF ~NetworkPlacements(fault) THEN [err |-> "NetworkOpsNotSupported", m |-> NoProps]
    ELSE NetworkPropsReq(conf, dc)

\* jivaUtil.StorageProps
StorageProps(conf, fault, dc) ==
    IF GetOrchProvider(fault) # "" THEN [err |-> GetOrchProvider(fault), m |-> NoProps]
    ELSE IF ~StoragePlacements(fault) THEN [err |-> "StorageOpsNotSupported", m |-> NoProps]
    ELSE StoragePropsReq(conf, dc)

initLabels(p) ==
    IF ~p.LabelsNil THEN [err |-> "", p |-> p]
    ELSE [err |-> "", p |-> [p EXCEPT !.LabelsNil = FALSE, !.Labels = NoLabels]]

verifySpecs(p) ==
    IF p.Requests.nil THEN [err |-> "StorageSpecsMissing", p |-> p]
    ELSE [err |-> "", p |-> p]

setJivaLblProps(p) ==
    IF p.LabelsNil THEN [err |-> "LabelsMissing", p |-> p]
    ELSE IF p.Labels[JivaFrontEndImageLbl] = Empty
    THEN [err |-> "",
          p |-> WithLabels(p, [p.Labels EXCEPT
                                  ![JivaFrontEndImageLbl] = S("openebs/jiva:latest")])]
    ELSE [err |-> "", p |-> p]

\* getStorageSize: the "storage" request, which has to be positive
getStorageSize(p) ==
    IF p.Requests.storage <= 0
    THEN [err |-> "InvalidStorageSize", size |-> p.Requests.storage]
    ELSE [err |-> "", size |-> p.Requests.storage]

setJivaSpecProps(p) ==
    LET sz == getStorageSize(p)
        fe == IF p.Requests.fe <= 0
              THEN [err |-> sz.err,
                    p |-> IF sz.err = "" THEN [p EXCEPT !.Requests.fe = sz.size] ELSE p]
              ELSE [err |-> "", p |-> p]
    IN  IF fe.err # "" THEN fe
        ELSE IF fe.p.Requests.be <= 0
        THEN [err |-> sz.err,
              p |-> IF sz.err = "" THEN [fe.p EXCEPT !.Requests.be = sz.size] ELSE fe.p]
        ELSE fe

setRegion(p, fault, region) ==
    IF p.LabelsNil THEN [err |-> "LabelsNotInitialized", p |-> p]
    ELSE IF p.Labels[RegionLbl] # Empty THEN [err |-> "", p |-> p]
    ELSE IF GetOrchProvider(fault) # "" THEN [err |-> GetOrchProvider(fault), p |-> p]
    ELSE IF region = Empty THEN [err |-> "RegionUndetermined", p |-> p]
    ELSE [err |-> "", p |-> WithLabels(p, [p.Labels EXCEPT ![RegionLbl] = region])]

\* setDC: aspect.DefaultDatacenter() yields def
setDC(p, def) ==
    IF p.LabelsNil THEN [err |-> "LabelsNotInitialized", p |-> p, dc |-> Empty]
    ELSE IF p.Labels[DatacenterLbl] # Empty
    THEN [err |-> "", p |-> p, dc |-> p.Labels[DatacenterLbl]]
    ELSE IF def = Empty THEN [err |-> "DatacenterUndetermined", p |-> p, dc |-> Empty]
    ELSE [err |-> "", dc |-> def,
          p |-> WithLabels(p, [p.Labels EXCEPT ![DatacenterLbl] = def])]

setCS(dc, p, conf, fault) ==
    IF p.LabelsNil THEN [err |-> "LabelsNotInitialized", p |-> p]
    ELSE IF dc = Empty THEN [err |-> "DatacenterNotProvided", p |-> p]
    ELSE LET cs == StorageProps(conf, fault, dc)
         IN  IF cs.err # "" THEN [err |-> cs.err, p |-> p]
             ELSE [err |-> "", p |-> WithLabels(p, FillIfEmpty(p.Labels, cs.m))]

getBackendCount(p) ==
    LET beCount == p.Labels[CSReplicaCountLbl]
    IN  IF ~AtoiOk(beCount) THEN [err |-> "AtoiSyntax", n |-> 0]
        ELSE [err |-> "", n |-> Atoi(beCount)]

RECURSIVE JoinWithComma(_)
JoinWithComma(ips) ==
    IF ips = <<>> THEN <<>>
    ELSE <<Head(ips), Comma>> \o JoinWithComma(Tail(ips))

\* setBackendIPsAsString that leaves the last comma in place
setBackendIPsAsStringNoTrim(ips, p) ==
    WithLabels(p, [p.Labels EXCEPT ![JivaBackEndAllIPsLbl] = JoinWithComma(ips)])

\* setBackendIPsAsString: every address followed by a comma, the last comma cut
setBackendIPsAsString(ips, p) ==
    WithLabels(p, [p.Labels EXCEPT
                      ![JivaBackEndAllIPsLbl] = TrimSuffixComma(JoinWithComma(ips))])

\* one call of nethelper.GetAvailableIPs as the caller sees it
AllocCall(cidr, count, used) ==
    LET r == GetAvailableIPs(cidr, count, used)
    IN  [count |-> count, err |-> r.err, ips |-> r.ips]

setBackendIPs(networkCIDR, p, used) ==
    LET bc == getBackendCount(p)
        a  == AllocCall(networkCIDR, bc.n, used)
    IN  IF bc.err # "" THEN [err |-> bc.err, p |-> p, calls |-> <<>>]
        ELSE IF a.err # "" THEN [err |-> a.err, p |-> p, calls |-> <<a>>]
        ELSE [err |-> "", p |-> setBackendIPsAsString(a.ips, p), calls |-> <<a>>]

\* setCNAddresses that draws backend addresses whenever a frontend IP is there,
\* without looking whether the claim already carries backend IPs
setCNAddressesNoLastTest(networkCIDR, p, used) ==
    IF p.Labels[JivaFrontEndIPLbl] = Empty /\ p.Labels[JivaBackEndAllIPsLbl] = Empty
    THEN LET bc == getBackendCount(p)
             a  == AllocCall(networkCIDR, 1 + bc.n, used)
         IN  IF bc.err # "" THEN [err |-> bc.err, p |-> p, calls |-> <<>>]
             ELSE IF a.err # "" THEN [err |-> a.err, p |-> p, calls |-> <<a>>]
             ELSE IF a.ips = <<>>
             THEN [err |-> "IndexOutOfRange", p |-> p, calls |-> <<a>>]
             ELSE [err |-> "", calls |-> <<a>>,
                   p |-> setBackendIPsAsString(Tail(a.ips),
                            WithLabels(p, [p.Labels EXCEPT
                                              ![JivaFrontEndIPLbl] = S(a.ips[1])]))]
    ELSE IF p.Labels[JivaFrontEndIPLbl] = Empty
    THEN LET a == AllocCall(networkCIDR, 1, used)
         IN  IF a.err # "" THEN [err |-> a.err, p |-> p, calls |-> <<a>>]
             ELSE [err |-> "", calls |-> <<a>>,
                   p |-> WithLabels(p, [p.Labels EXCEPT
                                           ![JivaFrontEndIPLbl] = S(a.ips[1])])]
    ELSE setBackendIPs(networkCIDR, p, used)

\* setCNAddresses whose first branch tests "frontend IP or backend IPs missing"
setCNAddressesOrTest(networkCIDR, p, used) ==
    IF p.Labels[JivaFrontEndIPLbl] = Empty \/ p.Labels[JivaBackEndAllIPsLbl] = Empty
    THEN LET bc == getBackendCount(p)
             a  == AllocCall(networkCIDR, 1 + bc.n, used)
         IN  IF bc.err # "" THEN [err |-> bc.err, p |-> p, calls |-> <<>>]
             ELSE IF a.err # "" THEN [err |-> a.err, p |-> p, calls |-> <<a>>]
             ELSE IF a.ips = <<>>
             THEN [err |-> "IndexOutOfRange", p |-> p, calls |-> <<a>>]
             ELSE [err |-> "", calls |-> <<a>>,
                   p |-> setBackendIPsAsString(Tail(a.ips),
                            WithLabels(p, [p.Labels EXCEPT
                                              ![JivaFrontEndIPLbl] = S(a.ips[1])]))]
    ELSE [err |-> "", p |-> p, calls |-> <<>>]

\* setCNAddresses that asks for replicaCount addresses where 1 + replicaCount
\* are to be drawn
setCNAddressesShortCount(networkCIDR, p, used) ==
    IF p.Labels[JivaFrontEndIPLbl] = Empty /\ p.Labels[JivaBackEndAllIPsLbl] = Empty
    THEN LET bc == getBackendCount(p)
             a  == AllocCall(networkCIDR, bc.n, used)
         IN  IF bc.err # "" THEN [err |-> bc.err, p |-> p, calls |-> <<>>]
             ELSE IF a.err # "" THEN [err |-> a.err, p |-> p, calls |-> <<a>>]
             ELSE IF a.ips = <<>>
             THEN [err |-> "IndexOutOfRange", p |-> p, calls |-> <<a>>]
             ELSE [err |-> "", calls |-> <<a>>,
                   p |-> setBackendIPsAsString(Tail(a.ips),
                            WithLabels(p, [p.Labels EXCEPT
                                              ![JivaFrontEndIPLbl] = S(a.ips[1])]))]
    ELSE IF p.Labels[JivaFrontEndIPLbl] = Empty
    THEN LET a == AllocCall(networkCIDR, 1, used)
         IN  IF a.err # "" THEN [err |-> a.err, p |-> p, calls |-> <<a>>]
             ELSE [err |-> "", calls |-> <<a>>,
                   p |-> WithLabels(p, [p.Labels EXCEPT
                                           ![JivaFrontEndIPLbl] = S(a.ips[1])])]
    ELSE IF p.Labels[JivaBackEndAllIPsLbl] = Empty
    THEN setBackendIPs(networkCIDR, p, used)
    ELSE [err |-> "", p |-> p, calls |-> <<>>]

\* the tail of setCN: the three way branch on frontend IP and backend IPs
setCNAddresses(networkCIDR, p, used) ==
    IF p.Labels[JivaFrontEndIPLbl] = Empty /\ p.Labels[JivaBackEndAllIPsLbl] = Empty
    THEN LET bc == getBackendCount(p)
             a  == AllocCall(networkCIDR, 1 + bc.n, used)
         IN  IF bc.err # "" THEN [err |-> bc.err, p |-> p, calls |-> <<>>]
             ELSE IF a.err # "" THEN [err |-> a.err, p |-> p, calls |-> <<a>>]
             ELSE IF a.ips = <<>>
             THEN [err |-> "IndexOutOfRange", p |-> p, calls |-> <<a>>]
             ELSE [err |-> "", calls |-> <<a>>,
                   p |-> setBackendIPsAsString(Tail(a.ips),
                            WithLabels(p, [p.Labels EXCEPT
                                              ![JivaFrontEndIPLbl] = S(a.ips[1])]))]
    ELSE IF p.Labels[JivaFrontEndIPLbl] = Empty
    THEN LET a == AllocCall(networkCIDR, 1, used)
         IN  IF a.err # "" THEN [err |-> a.err, p |-> p, calls |-> <<a>>]
             ELSE [err |-> "", calls |-> <<a>>,
                   p |-> WithLabels(p, [p.Labels EXCEPT
                                           ![JivaFrontEndIPLbl] = S(a.ips[1])])]
    ELSE IF p.Labels[JivaBackEndAllIPsLbl] = Empty
    THEN setBackendIPs(networkCIDR, p, used)
    ELSE [err |-> "", p |-> p, calls |-> <<>>]

setCN(dc, p, conf, fault, used) ==
    IF p.LabelsNil THEN [err |-> "LabelsNotInitialized", p |-> p, calls |-> <<>>]
    ELSE IF dc = Empty THEN [err |-> "DatacenterNotProvided", p |-> p, calls |-> <<>>]
    ELSE LET cn == NetworkProps(conf, fault, dc)
             p1 == WithLabels(p, FillIfEmpty(p.Labels, cn.m))
             networkCIDR == p1.Labels[CNNetworkCIDRAddrLbl]
             sub == CIDRSubnet(networkCIDR)
             p2 == WithLabels(p1, [p1.Labels EXCEPT ![CNSubnetLbl] = sub.subnet])
         IN  IF cn.err # "" THEN [err |-> cn.err, p |-> p, calls |-> <<>>]
             ELSE IF networkCIDR = Empty
             THEN [err |-> "NetworkCIDRUndetermined", p |-> p1, calls |-> <<>>]
             ELSE IF sub.err # "" THEN [err |-> sub.err, p |-> p1, calls |-> <<>>]
             ELSE setCNAddresses(networkCIDR, p2, used)

-----------------------------------------------------------------------------
(* lib/orchprovider/nomad/helper_funcs.go *)

\* m[k] = v on a Go map
Put(m, k, v) == [x \in (DOMAIN m) \cup {k} |-> IF x = k THEN v ELSE m[x]]

NilJob == [nil |-> TRUE]

\* a nil *v1.PersistentVolumeClaim
NilPvc == [nilPvc |-> TRUE]

JivaISCSIPortDef == S("3260")

JivaIqnFormatPrefix == S("iqn.2016-09.com.openebs.jiva")

NomadAllocIndex == S("${NOMAD_ALLOC_INDEX}")

\* the loop of setBEIPs with the ordinals counted from 1
RECURSIVE setBEIPsFromOne(_, _, _, _, _)
setBEIPsFromOne(beEnv, jobMeta, jivaBeIPArr, iJivaBECount, i) ==
    IF i >= iJivaBECount THEN [beEnv |-> beEnv, jobMeta |-> jobMeta]
    ELSE LET k == S(JivaBackEndIPPrefixLbl) \o Itoa(i + 1)
             v == jivaBeIPArr[i + 1]
         IN  setBEIPsFromOne(Put(beEnv, k, v), Put(jobMeta, k, v),
                             jivaBeIPArr, iJivaBECount, i + 1)

\* the loop of setBEIPs from index i on
RECURSIVE setBEIPsFrom(_, _, _, _, _)
setBEIPsFrom(beEnv, jobMeta, jivaBeIPArr, iJivaBECount, i) ==
    IF i >= iJivaBECount THEN [beEnv |-> beEnv, jobMeta |-> jobMeta]
    ELSE LET k == S(JivaBackEndIPPrefixLbl) \o Itoa(i)
             v == jivaBeIPArr[i + 1]
         IN  setBEIPsFrom(Put(beEnv, k, v), Put(jobMeta, k, v),
                          jivaBeIPArr, iJivaBECount, i + 1)

\* setBEIPs that rejects too few replica IPs only
setBEIPsTooFewOnly(beEnv, jobMeta, jivaBeIPArr, iJivaBECount) ==
    IF iJivaBECount = 0
    THEN [err |-> "InvalidReplicaCountZero", beEnv |-> beEnv, jobMeta |-> jobMeta]
    ELSE IF Len(jivaBeIPArr) < iJivaBECount
    THEN [err |-> "ReplicaIPCountMismatch", beEnv |-> beEnv, jobMeta |-> jobMeta]
    ELSE LET r == setBEIPsFrom(beEnv,
                               Put(jobMeta, S(PVPReplicaCountLbl), Itoa(iJivaBECount)),
                               jivaBeIPArr, iJivaBECount, 0)
         IN  [err |-> "", beEnv |-> r.beEnv, jobMeta |-> r.jobMeta]

setBEIPs(beEnv, jobMeta, jivaBeIPArr, iJivaBECount) ==
    IF iJivaBECount = 0
    THEN [err |-> "InvalidReplicaCountZero", beEnv |-> beEnv, jobMeta |-> jobMeta]
    ELSE IF Len(jivaBeIPArr) # iJivaBECount
    THEN [err |-> "ReplicaIPCountMismatch", beEnv |-> beEnv, jobMeta |-> jobMeta]
    ELSE LET r == setBEIPsFrom(beEnv,
                               Put(jobMeta, S(PVPReplicaCountLbl), Itoa(iJivaBECount)),
                               jivaBeIPArr, iJivaBECount, 0)
         IN  [err |-> "", beEnv |-> r.beEnv, jobMeta |-> r.jobMeta]

RestartPolicy ==
    [Attempts |-> 3, IntervalMinutes |-> 5, DelaySeconds |-> 25, Mode |-> "delay"]

Resources == [CPU |-> 50, MemoryMB |-> 50, MBits |-> 50]

\* MissingLabel without the test of the controller image
MissingLabelNoImage(l) ==
    IF l[OrchRegionLbl] = Empty THEN "MissingRegion"
    ELSE IF l[OrchDCLbl] = Empty THEN "MissingDatacenter"
    ELSE IF l[PVPControllerIPsLbl] = Empty THEN "MissingControllerIPs"
    ELSE IF l[PVPReplicaIPsLbl] = Empty THEN "MissingReplicaIPs"
    ELSE IF l[CNTypeLbl] = Empty THEN "MissingCNType"
    ELSE IF l[CNSubnetLbl] = Empty THEN "MissingCNSubnet"
    ELSE IF l[CNInterfaceLbl] = Empty THEN "MissingCNInterface"
    ELSE IF l[PVPPersistenceLocationLbl] = Empty THEN "MissingPersistenceLocation"
    ELSE IF l[PVPStorageSizeLbl] = Empty THEN "MissingStorageSize"
    ELSE ""

\* the first required label that is empty, in the order PvcToJob tests them
MissingLabel(l) ==
    IF l[OrchRegionLbl] = Empty THEN "MissingRegion"
    ELSE IF l[OrchDCLbl] = Empty THEN "MissingDatacenter"
    ELSE IF l[PVPControllerImageLbl] = Empty THEN "MissingControllerImage"
    ELSE IF l[PVPControllerIPsLbl] = Empty THEN "MissingControllerIPs"
    ELSE IF l[PVPReplicaIPsLbl] = Empty THEN "MissingReplicaIPs"
    ELSE IF l[CNTypeLbl] = Empty THEN "MissingCNType"
    ELSE IF l[CNSubnetLbl] = Empty THEN "MissingCNSubnet"
    ELSE IF l[CNInterfaceLbl] = Empty THEN "MissingCNInterface"
    ELSE IF l[PVPPersistenceLocationLbl] = Empty THEN "MissingPersistenceLocation"
    ELSE IF l[PVPStorageSizeLbl] = Empty THEN "MissingStorageSize"
    ELSE ""

\* BuildJob with the two replicas of the default storage policy
BuildJobTwoReplicas(p, iJivaBECount, feEnv, beEnv, jobMeta) ==
    [nil         |-> FALSE,
     Region      |-> p.Labels[OrchRegionLbl],
     Name        |-> p.Name,
     ID          |-> p.Name,
     Datacenters |-> <<p.Labels[OrchDCLbl]>>,
     Type        |-> "service",
     Priority    |-> 50,
     Constraints |-> <<[LTarget |-> "${attr.kernel.name}", Operand |-> "=",
                        RTarget |-> "linux"]>>,
     Meta        |-> jobMeta,
     TaskGroups  |->
        <<[Name |-> "fe-jiva-pod", Count |-> 1, Constraints |-> <<>>,
           RestartPolicy |-> RestartPolicy,
           Tasks |-> <<[Name |-> "fe", Driver |-> "raw_exec",
                        Resources |-> Resources, Env |-> feEnv]>>],
          [Name |-> "be-jiva-pod", Count |-> 2,
           Constraints |-> <<[LTarget |-> "", Operand |-> "distinct_hosts",
                              RTarget |-> "true"]>>,
           RestartPolicy |-> RestartPolicy,
           Tasks |-> <<[Name |-> "be", Driver |-> "raw_exec",
                        Resources |-> Resources, Env |-> beEnv]>>]>>]

\* BuildJob with the distinct hosts constraint on the frontend group
BuildJobSpreadFrontEnd(p, iJivaBECount, feEnv, beEnv, jobMeta) ==
    [nil         |-> FALSE,
     Region      |-> p.Labels[OrchRegionLbl],
     Name        |-> p.Name,
     ID          |-> p.Name,
     Datacenters |-> <<p.Labels[OrchDCLbl]>>,
     Type        |-> "service",
     Priority    |-> 50,
     Constraints |-> <<[LTarget |-> "${attr.kernel.name}", Operand |-> "=",
                        RTarget |-> "linux"]>>,
     Meta        |-> jobMeta,
     TaskGroups  |->
        <<[Name |-> "fe-jiva-pod", Count |-> 1,
           Constraints |-> <<[LTarget |-> "", Operand |-> "distinct_hosts",
                              RTarget |-> "true"]>>,
           RestartPolicy |-> RestartPolicy,
           Tasks |-> <<[Name |-> "fe", Driver |-> "raw_exec",
                        Resources |-> Resources, Env |-> feEnv]>>],
          [Name |-> "be-jiva-pod", Count |-> iJivaBECount,
           Constraints |-> <<>>,
           RestartPolicy |-> RestartPolicy,
           Tasks |-> <<[Name |-> "be", Driver |-> "raw_exec",
                        Resources |-> Resources, Env |-> beEnv]>>]>>]

\* the job literal PvcToJob returns
BuildJob(p, iJivaBECount, feEnv, beEnv, jobMeta) ==
    [nil         |-> FALSE,
     Region      |-> p.Labels[OrchRegionLbl],
     Name        |-> p.Name,
     ID          |-> p.Name,
     Datacenters |-> <<p.Labels[OrchDCLbl]>>,
     Type        |-> "service",
     Priority    |-> 50,
     Constraints |-> <<[LTarget |-> "${attr.kernel.name}", Operand |-> "=",
                        RTarget |-> "linux"]>>,
     Meta        |-> jobMeta,
     TaskGroups  |->
        <<[Name |-> "fe-jiva-pod", Count |-> 1, Constraints |-> <<>>,
           RestartPolicy |-> RestartPolicy,
           Tasks |-> <<[Name |-> "fe", Driver |-> "raw_exec",
                        Resources |-> Resources, Env |-> feEnv]>>],
          [Name |-> "be-jiva-pod", Count |-> iJivaBECount,
           Constraints |-> <<[LTarget |-> "", Operand |-> "distinct_hosts",
                              RTarget |-> "true"]>>,
           RestartPolicy |-> RestartPolicy,
           Tasks |-> <<[Name |-> "be", Driver |-> "raw_exec",
                        Resources |-> Resources, Env |-> beEnv]>>]>>]

\* PvcToJobName: the job name of a claim is the name of the claim
PvcToJobName(p) ==
    IF "nilPvc" \in DOMAIN p THEN [err |-> "NilPvc", name |-> Empty]
    ELSE IF p.Name = Empty THEN [err |-> "MissingVSMName", name |-> Empty]
    ELSE [err |-> "", name |-> p.Name]

PvcToJob(p) ==
    IF "nilPvc" \in DOMAIN p THEN [err |-> "NilPvc", job |-> NilJob]
    ELSE IF p.Name = Empty THEN [err |-> "MissingVSMName", job |-> NilJob]
    ELSE IF p.LabelsNil THEN [err |-> "MissingLabels", job |-> NilJob]
    ELSE IF MissingLabel(p.Labels) # "" THEN [err |-> MissingLabel(p.Labels), job |-> NilJob]
    ELSE IF ~AtoiOk(p.Labels[PVPReplicaCountLbl]) THEN [err |-> "AtoiSyntax", job |-> NilJob]
    ELSE
    LET l             == p.Labels
        jivaVolSize   == l[PVPStorageSizeLbl]
        jivaFeVersion == l[PVPControllerImageLbl]
        jivaFeIP      == l[PVPControllerIPsLbl]
        iJivaBECount  == Atoi(l[PVPReplicaCountLbl])
        jivaBeIPArr   == Split(l[PVPReplicaIPsLbl])
        jobMeta ==
            (S(JivaBackEndVolSizeLbl) :> jivaVolSize)
            @@ (S(JivaFrontEndIPLbl) :> jivaFeIP)
            @@ (S(JivaTargetPortalLbl) :> jivaFeIP \o S(":") \o JivaISCSIPortDef)
            @@ (S(JivaIqnLbl) :> JivaIqnFormatPrefix \o S(":") \o p.Name)
        feEnv ==
            (S("JIVA_CTL_NAME") :> p.Name \o S("-") \o S("fe") \o NomadAllocIndex)
            @@ (S("JIVA_CTL_VERSION") :> jivaFeVersion)
            @@ (S("JIVA_CTL_VOLNAME") :> p.Name)
            @@ (S("JIVA_CTL_VOLSIZE") :> jivaVolSize)
            @@ (S("JIVA_CTL_IP") :> jivaFeIP)
            @@ (S("JIVA_CTL_SUBNET") :> l[CNSubnetLbl])
            @@ (S("JIVA_CTL_IFACE") :> l[CNInterfaceLbl])
        beEnv ==
            (S("NOMAD_ALLOC_INDEX") :> NomadAllocIndex)
            @@ (S("JIVA_REP_NAME") :> p.Name \o S("-") \o S("be") \o NomadAllocIndex)
            @@ (S("JIVA_CTL_IP") :> jivaFeIP)
            @@ (S("JIVA_REP_VOLNAME") :> p.Name)
            @@ (S("JIVA_REP_VOLSIZE") :> jivaVolSize)
            @@ (S("JIVA_REP_VOLSTORE") :> l[PVPPersistenceLocationLbl] \o p.Name
                                           \o S("/") \o S("be") \o NomadAllocIndex)
            @@ (S("JIVA_REP_VERSION") :> jivaFeVersion)
            @@ (S("JIVA_REP_NETWORK") :> l[CNTypeLbl])
            @@ (S("JIVA_REP_IFACE") :> l[CNInterfaceLbl])
            @@ (S("JIVA_REP_SUBNET") :> l[CNSubnetLbl])
        be == setBEIPs(beEnv, jobMeta, jivaBeIPArr, iJivaBECount)
    IN  IF be.err # "" THEN [err |-> be.err, job |-> NilJob]
        ELSE [err |-> "",
              job |-> BuildJob(p, iJivaBECount, feEnv, be.beEnv, be.jobMeta)]

\* a *string of the Nomad api: nil, or a pointer to val
NilPtr == [nil |-> TRUE, val |-> Empty]

Ptr(v) == [nil |-> FALSE, val |-> v]

\* a Go map that is nil
NilMap == <<>>

NilEval == [nil |-> TRUE]

NilPv == [nil |-> TRUE]

JobStatusRunning == S("running")

\* JobEvalToPv swapping the message and the reason of the status
JobEvalToPvSwapped(jobName, eval) ==
    IF eval.nil THEN [err |-> "NilEval", pv |-> NilPv]
    ELSE LET evalProps ==
                 (S("evalpriority") :> Itoa(eval.Priority))
                 @@ (S("evaltype") :> eval.Type)
                 @@ (S("evaltrigger") :> eval.TriggeredBy)
                 @@ (S("evaljob") :> eval.JobID)
                 @@ (S("evalstatus") :> eval.Status)
                 @@ (S("evalstatusdesc") :> eval.StatusDescription)
                 @@ (S("evalblockedeval") :> eval.BlockedEval)
         IN  [err |-> "",
              pv |-> [nil |-> FALSE, Name |-> jobName, Annotations |-> evalProps,
                      Status |-> [Message |-> eval.Status,
                                  Reason |-> eval.StatusDescription]]]

JobEvalToPv(jobName, eval) ==
    IF eval.nil THEN [err |-> "NilEval", pv |-> NilPv]
    ELSE LET evalProps ==
                 (S("evalpriority") :> Itoa(eval.Priority))
                 @@ (S("evaltype") :> eval.Type)
                 @@ (S("evaltrigger") :> eval.TriggeredBy)
                 @@ (S("evaljob") :> eval.JobID)
                 @@ (S("evalstatus") :> eval.Status)
                 @@ (S("evalstatusdesc") :> eval.StatusDescription)
                 @@ (S("evalblockedeval") :> eval.BlockedEval)
         IN  [err |-> "",
              pv |-> [nil |-> FALSE, Name |-> jobName, Annotations |-> evalProps,
                      Status |-> [Message |-> eval.StatusDescription,
                                  Reason |-> eval.Status]]]

\* PvToJob giving the job an ID of its own
PvToJobOwnID(pv) ==
    IF pv.nil THEN [err |-> "NilPv", job |-> NilJob]
    ELSE [err |-> "",
          job |-> [nil |-> FALSE, Name |-> Ptr(pv.Name),
                   ID |-> Ptr(pv.Name \o S("-") \o S("1")),
                   Status |-> NilPtr, StatusDescription |-> NilPtr,
                   Meta |-> NilMap]]

\* PvToJob: a job that carries the name of the volume as Name and as ID,
\* every other field left unset
PvToJob(pv) ==
    IF pv.nil THEN [err |-> "NilPv", job |-> NilJob]
    ELSE [err |-> "",
          job |-> [nil |-> FALSE, Name |-> Ptr(pv.Name), ID |-> Ptr(pv.Name),
                   Status |-> NilPtr, StatusDescription |-> NilPtr,
                   Meta |-> NilMap]]

\* JobToPv: the name, the status and the status description of the job
\* are dereferenced without a test, which panics on a nil pointer
JobToPv(j) ==
    IF j.nil THEN [err |-> "NilJob", pv |-> NilPv]
    ELSE IF j.Name.nil \/ j.StatusDescription.nil \/ j.Status.nil
    THEN [err |-> "panic", pv |-> NilPv]
    ELSE [err |-> "",
          pv |-> [nil |-> FALSE, Name |-> j.Name.val,
                  Status |-> [Message |-> j.StatusDescription.val,
                              Reason |-> j.Status.val],
                  Annotations |-> IF j.Status.val = JobStatusRunning
                                  THEN j.Meta ELSE NilMap]]

-----------------------------------------------------------------------------
(* The claims and the environments the pipeline is run on *)

Host(i) == AddrTable[i]

OutsideIP == "192.168.9.9"

Label(k, v) == k :> v

\* what a user writes into a key of the claim
UserValue ==
    (JivaFrontEndImageLbl :> S("user/jiva:1.0"))
    @@ (RegionLbl :> S("user-region"))
    @@ (DatacenterLbl :> S("dc2"))
    @@ (PVPPersistenceLocationLbl :> S("/user/"))
    @@ (PVPReplicaCountLbl :> S("1"))
    @@ (CNTypeLbl :> S("bridge"))
    @@ (CNNetworkCIDRAddrLbl :> NetCIDR)
    @@ (CNInterfaceLbl :> S("eth9"))
    @@ (CNSubnetLbl :> S("10.9.9.0/24"))
    @@ (OrchRegionLbl :> S("user-region"))
    @@ (OrchDCLbl :> S("dc2"))
    @@ (PVPControllerImageLbl :> S("user/jiva:1.0"))
    @@ (PVPControllerIPsLbl :> S("10.0.0.1"))
    @@ (PVPStorageSizeLbl :> S("5G"))

UserLabels(keys) == [k \in keys |-> UserValue[k]]

ResolutionKeys ==
    {JivaFrontEndImageLbl, RegionLbl, DatacenterLbl, PVPPersistenceLocationLbl,
     PVPReplicaCountLbl, CNTypeLbl, CNNetworkCIDRAddrLbl, CNInterfaceLbl,
     CNSubnetLbl}

BuilderKeys ==
    {OrchRegionLbl, OrchDCLbl, PVPControllerImageLbl, PVPControllerIPsLbl,
     PVPStorageSizeLbl}

\* replica counts as strings: absent, malformed, and 0..MaxReplica
CountStrings == {Empty, S("x")} \cup {Itoa(n) : n \in 0..MaxReplica}

\* comma separated lists of the hosts from..to, to < from for the empty list
RECURSIVE HostList(_, _)
HostList(from, to) ==
    IF to < from THEN <<>>
    ELSE IF from = to THEN <<Host(from)>>
    ELSE <<Host(from), Comma>> \o HostList(from + 1, to)

FrontEndChoices == {Empty, S(Host(1)), S(OutsideIP)}

BackEndChoices == {HostList(2, 1 + n) : n \in 0..MaxReplica}

BaseRequests == [nil |-> FALSE, storage |-> 5, fe |-> 0, be |-> 0]

Claim(name, labels) ==
    [Name |-> name, LabelsNil |-> FALSE, Labels |-> Merge(NoLabels, labels),
     Requests |-> BaseRequests]

VolName == S("vol1")

\* claims that exercise resolution and allocation
ResolutionClaims ==
    {Claim(VolName, UserLabels(u) @@ Label(CSReplicaCountLbl, n)
                    @@ Label(JivaFrontEndIPLbl, fe) @@ Label(JivaBackEndAllIPsLbl, be)) :
        u \in {x \in SUBSET ResolutionKeys : Cardinality(x) <= 2},
        n \in CountStrings, fe \in FrontEndChoices, be \in BackEndChoices}

\* claims that carry the labels the job builder reads
BuilderClaims ==
    {Claim(VolName, UserLabels(BuilderKeys \ m) @@ Label(PVPReplicaCountLbl, n)
                    @@ Label(PVPReplicaIPsLbl, ips) @@ Label(CSReplicaCountLbl, S("1"))
                    @@ Label(JivaFrontEndIPLbl, fe)) :
        m \in {x \in SUBSET BuilderKeys : Cardinality(x) <= 1},
        n \in CountStrings, ips \in BackEndChoices \cup {<<Host(2), Comma>>},
        fe \in {Empty, S(Host(1))}}

\* claims that are malformed as a whole
OddClaims ==
    {[Claim(VolName, NoProps) EXCEPT !.LabelsNil = TRUE],
     [Claim(VolName, Label(CSReplicaCountLbl, S("1"))) EXCEPT !.Requests.nil = TRUE],
     [Claim(VolName, Label(CSReplicaCountLbl, S("1"))) EXCEPT !.Requests.storage = 0],
     [Claim(VolName, Label(CSReplicaCountLbl, S("1"))) EXCEPT !.Requests.fe = 3],
     Claim(Empty, UserLabels(BuilderKeys) @@ Label(CSReplicaCountLbl, S("1"))
                  @@ Label(PVPReplicaIPsLbl, HostList(2, 3)))}

DCEntry(type, cidr, iface, loc, count) ==
    [CNType |-> type, CNNetworkCIDR |-> cidr, CNInterface |-> iface,
     CSPersistenceLocation |-> loc, CSReplicaCount |-> count]

FullEntry == DCEntry(S("conf-host"), NetCIDR, S("conf-eth0"), S("/conf/"), S("1"))

Conf(entry) ==
    [nil |-> FALSE, dcNil |-> FALSE,
     Datacenter |-> (S("dc1") :> entry) @@ (S("dc2") :> FullEntry)]

GoodConfs ==
    {Conf(FullEntry), Conf(DCEntry(Empty, Empty, Empty, Empty, Empty))}

OddConfs ==
    {Conf([FullEntry EXCEPT !.CNType = Empty]),
     Conf([FullEntry EXCEPT !.CNNetworkCIDR = Empty]),
     Conf([FullEntry EXCEPT !.CNNetworkCIDR = BadCIDR]),
     Conf([FullEntry EXCEPT !.CNInterface = Empty]),
     Conf([FullEntry EXCEPT !.CSPersistenceLocation = Empty]),
     Conf([FullEntry EXCEPT !.CSReplicaCount = Empty]),
     Conf([FullEntry EXCEPT !.CSReplicaCount = S("x")]),
     Conf([FullEntry EXCEPT !.CSReplicaCount = S("0")]),
     Conf([FullEntry EXCEPT !.CSReplicaCount = <<"-", "1">>]),
     [nil |-> TRUE, dcNil |-> TRUE, Datacenter |-> <<>>],
     [nil |-> FALSE, dcNil |-> TRUE, Datacenter |-> <<>>],
     [nil |-> FALSE, dcNil |-> FALSE, Datacenter |-> (S("dc2") :> FullEntry)]}

Env(conf, region, dc, fault, used) ==
    [nomadConf |-> conf, orchRegion |-> region, defaultDC |-> dc,
     orchFault |-> fault, inUse |-> used]

InUseChoices ==
    {{}, {Host(1)}, {Host(2)}, {Host(i) : i \in 1..(NumHosts - 1)}}

GoodEnvs ==
    {Env(c, S("global"), S("dc1"), "", u) : c \in GoodConfs, u \in InUseChoices}

OddEnvs ==
    {Env(c, S("global"), S("dc1"), "", {}) : c \in OddConfs}
    \cup {Env(Conf(FullEntry), Empty, S("dc1"), "", {}),
          Env(Conf(FullEntry), S("global"), Empty, "", {}),
          Env(Conf(FullEntry), S("global"), S("dc1"), "GetOrchProvider", {}),
          Env(Conf(FullEntry), S("global"), S("dc1"), "NoStorageOps", {}),
          Env(Conf(FullEntry), S("global"), S("dc1"), "NoNetworkOps", {})}

\* the claims of the odd environments: nothing set, or everything the
\* orchestrator would otherwise be asked for
PlainClaims ==
    {Claim(VolName, Label(CSReplicaCountLbl, S("1"))),
     Claim(VolName, UserLabels({RegionLbl, DatacenterLbl})
                    @@ Label(CSReplicaCountLbl, S("1"))),
     Claim(VolName, UserLabels(ResolutionKeys) @@ Label(CSReplicaCountLbl, S("1")))}

Scenarios ==
    ((ResolutionClaims \cup BuilderClaims \cup OddClaims) \X GoodEnvs)
    \cup (PlainClaims \X OddEnvs)

-----------------------------------------------------------------------------
(* The state machine: ProvisionStorage, one step per action *)

Calls == DOMAIN pc

NoError == [step |-> "", kind |-> ""]

\* no transformation to a volume has been made
NoStatus == [op |-> "", arg |-> <<>>, ret |-> [err |-> "", pv |-> NilPv]]

NoSnap == [taken |-> FALSE, labels |-> NoLabels, nallocs |-> 0]

InitCalls(claims, env) ==
    /\ pvc = claims
    /\ pc = [c \in DOMAIN claims |-> "begin"]
    /\ err = [c \in DOMAIN claims |-> NoError]
    /\ run = [c \in DOMAIN claims |-> 1]
    /\ dcArg = [c \in DOMAIN claims |-> Empty]
    /\ allocs = [c \in DOMAIN claims |-> <<>>]
    /\ before = [c \in DOMAIN claims |-> [labels |-> claims[c].Labels, nallocs |-> 0]]
    /\ pvc0 = [c \in DOMAIN claims |-> claims[c].Labels]
    /\ snap = [c \in DOMAIN claims |-> NoSnap]
    /\ job = [c \in DOMAIN claims |-> NilJob]
    /\ status = [c \in DOMAIN claims |-> NoStatus]
    /\ nomadConf = env.nomadConf
    /\ orchRegion = env.orchRegion
    /\ defaultDC = env.defaultDC
    /\ orchFault = env.orchFault
    /\ inUse = env.inUse

Init == \E sc \in Scenarios : InitCalls(<<sc[1]>>, sc[2])

\* two claims that are complete but for their addresses
ConcurrentClaims(name) ==
    {Claim(name, UserLabels(BuilderKeys) @@ Label(PVPReplicaCountLbl, Itoa(n))
                 @@ Label(PVPReplicaIPsLbl, HostList(2, 1 + n))
                 @@ Label(CSReplicaCountLbl, Itoa(n))) : n \in 1..MaxReplica}

\* two provisioning calls at a time against the same network
InitConc ==
    \E c1 \in ConcurrentClaims(S("vol1")), c2 \in ConcurrentClaims(S("vol2")),
       env \in GoodEnvs : InitCalls(<<c1, c2>>, env)

EnvUnchanged == UNCHANGED <<nomadConf, orchRegion, defaultDC, orchFault, inUse>>

\* a step of call c that returns e at step s, or moves on to next when e = ""
Return(c, s, e, next) ==
    /\ pc' = [pc EXCEPT ![c] = IF e = "" THEN next ELSE "failed"]
    /\ err' = [err EXCEPT ![c] = IF e = "" THEN NoError ELSE [step |-> s, kind |-> e]]

\* the first error of a sequence of step results, "" when there is none
RECURSIVE FirstError(_)
FirstError(es) ==
    IF es = <<>> THEN "" ELSE IF Head(es) # "" THEN Head(es) ELSE FirstError(Tail(es))

\* ProvisionStorage up to setJivaSpecProps
Begin(c) ==
    /\ pc[c] = "begin"
    /\ LET r1 == initLabels(pvc[c])
           r2 == verifySpecs(r1.p)
           r3 == setJivaLblProps(r2.p)
           r4 == setJivaSpecProps(r3.p)
           lookup == IF GetOrchProvider(orchFault) # "" THEN GetOrchProvider(orchFault)
                     ELSE IF ~StoragePlacements(orchFault) THEN "StorageOpsNotSupported"
                     ELSE ""
           e == FirstError(<<lookup, r1.err, r2.err, r3.err, r4.err>>)
       IN  /\ pvc' = [pvc EXCEPT ![c] =
                         IF lookup # "" THEN pvc[c]
                         ELSE IF r2.err # "" THEN r2.p
                         ELSE IF r3.err # "" THEN r3.p ELSE r4.p]
           /\ Return(c, "begin", e, "setRegion")
    /\ UNCHANGED <<run, dcArg, allocs, before, pvc0, snap, job, status>>
    /\ EnvUnchanged

SetRegion(c) ==
    /\ pc[c] = "setRegion"
    /\ LET r == setRegion(pvc[c], orchFault, orchRegion)
       IN  /\ pvc' = [pvc EXCEPT ![c] = r.p]
           /\ Return(c, "setRegion", r.err, "setDC")
    /\ UNCHANGED <<run, dcArg, allocs, before, pvc0, snap, job, status>>
    /\ EnvUnchanged

SetDC(c) ==
    /\ pc[c] = "setDC"
    /\ LET r == setDC(pvc[c], defaultDC)
       IN  /\ pvc' = [pvc EXCEPT ![c] = r.p]
           /\ dcArg' = [dcArg EXCEPT ![c] = r.dc]
           /\ Return(c, "setDC", r.err, "setCS")
    /\ UNCHANGED <<run, allocs, before, pvc0, snap, job, status>>
    /\ EnvUnchanged

SetCS(c) ==
    /\ pc[c] = "setCS"
    /\ LET r == setCS(dcArg[c], pvc[c], nomadConf, orchFault)
       IN  /\ pvc' = [pvc EXCEPT ![c] = r.p]
           /\ Return(c, "setCS", r.err, "setCN")
    /\ UNCHANGED <<run, dcArg, allocs, before, pvc0, snap, job, status>>
    /\ EnvUnchanged

SetCN(c) ==
    /\ pc[c] = "setCN"
    /\ LET r == setCN(dcArg[c], pvc[c], nomadConf, orchFault, inUse)
       IN  /\ pvc' = [pvc EXCEPT ![c] = r.p]
           /\ allocs' = [allocs EXCEPT ![c] = @ \o r.calls]
           /\ before' = [before EXCEPT ![c] =
                            [labels |-> pvc[c].Labels, nallocs |-> Len(allocs[c])]]
           /\ snap' = [snap EXCEPT ![c] =
                          IF run[c] = 1 /\ r.err = ""
                          THEN [taken |-> TRUE, labels |-> r.p.Labels,
                                nallocs |-> Len(allocs[c]) + Len(r.calls)]
                          ELSE @]
           /\ Return(c, "setCN", r.err, "place")
    /\ UNCHANGED <<run, dcArg, pvc0, job, status>>
    /\ EnvUnchanged

\* storageOrchestrator.StoragePlacementReq: build the job and submit it; the
\* submission itself succeeds or fails as the backend decides
Place(c) ==
    /\ pc[c] = "place"
    /\ LET r == PvcToJob(pvc[c])
       IN  \E backend \in {"", "BackendError"} :
               LET e == IF r.err # "" THEN r.err ELSE backend
               IN  /\ job' = [job EXCEPT ![c] = r.job]
                   /\ Return(c, "place", e, "done")
    /\ UNCHANGED <<pvc, run, dcArg, allocs, before, pvc0, snap, status>>
    /\ EnvUnchanged

\* the caller invokes ProvisionStorage again on the same claim
Retry(c) ==
    /\ pc[c] \in {"done", "failed"}
    /\ run[c] < MaxRuns
    /\ pc' = [pc EXCEPT ![c] = "begin"]
    /\ err' = [err EXCEPT ![c] = NoError]
    /\ run' = [run EXCEPT ![c] = @ + 1]
    /\ job' = [job EXCEPT ![c] = NilJob]
    /\ UNCHANGED <<pvc, dcArg, allocs, before, pvc0, snap, status>>
    /\ EnvUnchanged

Next ==
    \/ \E c \in Calls : Begin(c)
    \/ \E c \in Calls : SetRegion(c)
    \/ \E c \in Calls : SetDC(c)
    \/ \E c \in Calls : SetCS(c)
    \/ \E c \in Calls : SetCN(c)
    \/ \E c \in Calls : Place(c)
    \/ \E c \in Calls : Retry(c)

Spec == Init /\ [][Next]_vars

SpecConc == InitConc /\ [][Next]_vars

-----------------------------------------------------------------------------
(* The transformations of helper_funcs.go, each applied on its own: a claim *)
(* is turned into a job, the evaluation of the registered job into a volume, *)
(* and the job as the orchestrator reports it later into a volume again     *)

\* the labels PvcToJob requires, but for the replica IPs
BuildKeys ==
    BuilderKeys \cup {CNTypeLbl, CNSubnetLbl, CNInterfaceLbl, PVPPersistenceLocationLbl}

\* claims with up to two of the required labels missing, any replica count
\* and any list of replica IPs, and the claims that are malformed as a whole
BuildInputs ==
    {Claim(VolName, UserLabels(BuildKeys \ m) @@ Label(PVPReplicaCountLbl, n)
                    @@ Label(PVPReplicaIPsLbl, ips)) :
        m \in {x \in SUBSET BuildKeys : Cardinality(x) <= 2},
        n \in CountStrings, ips \in BackEndChoices \cup {<<Host(2), Comma>>}}
    \cup {Claim(Empty, UserLabels(BuildKeys \ m) @@ Label(PVPReplicaCountLbl, S("1"))
                       @@ Label(PVPReplicaIPsLbl, HostList(2, 2))) :
              m \in {{}, {OrchRegionLbl}}}
    \cup {Claim(S("vol2"), UserLabels(BuildKeys) @@ Label(PVPReplicaCountLbl, S("1"))
                          @@ Label(PVPReplicaIPsLbl, HostList(2, 2)))}
    \cup {[Claim(VolName, NoProps) EXCEPT !.LabelsNil = TRUE], NilPvc}

Evaluation(priority, st, desc, blocked) ==
    [nil |-> FALSE, Priority |-> priority, Type |-> S("service"),
     TriggeredBy |-> S("job-register"), JobID |-> VolName, Status |-> st,
     StatusDescription |-> desc, BlockedEval |-> blocked]

\* what registering a job returns: an evaluation, or none
Evaluations ==
    {Evaluation(p, st, d, b) :
        p \in {0, 50, 100}, st \in {S("pending"), S("complete"), S("blocked")},
        d \in {Empty, S("ok")}, b \in {Empty, S("eval-2")}}
    \cup {NilEval}

\* job j as the orchestrator reports it, with its status filled in or not
ObservedJob(j, name, st, desc) ==
    [nil |-> FALSE, Name |-> name, ID |-> name, Status |-> st,
     StatusDescription |-> desc, Meta |-> j.Meta]

ObservedJobs(j) ==
    {ObservedJob(j, Ptr(j.Name), st, d) :
        st \in {NilPtr, Ptr(S("pending")), Ptr(JobStatusRunning), Ptr(S("dead"))},
        d \in {NilPtr, Ptr(Empty), Ptr(S("ok"))}}
    \cup {ObservedJob(j, NilPtr, Ptr(JobStatusRunning), Ptr(S("ok"))), NilJob}

\* the labels of a claim, none for a nil claim
LabelsOf(p) == IF "nilPvc" \in DOMAIN p THEN NoLabels ELSE p.Labels

InitXform ==
    \E p \in BuildInputs :
        /\ pvc = <<p>>
        /\ pc = <<"build">>
        /\ err = <<NoError>>
        /\ run = <<1>>
        /\ dcArg = <<Empty>>
        /\ allocs = << <<>> >>
        /\ before = <<[labels |-> LabelsOf(p), nallocs |-> 0]>>
        /\ pvc0 = <<LabelsOf(p)>>
        /\ snap = <<NoSnap>>
        /\ job = <<NilJob>>
        /\ status = <<NoStatus>>
        /\ nomadConf = Conf(FullEntry)
        /\ orchRegion = S("global")
        /\ defaultDC = S("dc1")
        /\ orchFault = ""
        /\ inUse = {}

\* PvcToJobName on the claim of call c, before the job is built
JobName(c) ==
    /\ pc[c] = "build"
    /\ status[c].op = ""
    /\ status' = [status EXCEPT ![c] =
                     [op |-> "PvcToJobName", arg |-> pvc[c],
                      ret |-> PvcToJobName(pvc[c])]]
    /\ UNCHANGED <<pvc, pc, err, run, dcArg, allocs, before, pvc0, snap, job>>
    /\ EnvUnchanged

\* PvcToJob on the claim of call c
Build(c) ==
    /\ pc[c] = "build"
    /\ LET r == PvcToJob(pvc[c])
       IN  /\ job' = [job EXCEPT ![c] = r.job]
           /\ Return(c, "build", r.err, "built")
    /\ UNCHANGED <<pvc, run, dcArg, allocs, before, pvc0, snap, status>>
    /\ EnvUnchanged

\* the job is registered and JobEvalToPv turns the evaluation into a volume
Register(c) ==
    /\ pc[c] = "built"
    /\ \E e \in Evaluations :
           LET r == JobEvalToPv(job[c].Name, e)
           IN  /\ status' = [status EXCEPT ![c] =
                                [op |-> "JobEvalToPv", arg |-> e, ret |-> r]]
               /\ Return(c, "register", r.err, "registered")
    /\ UNCHANGED <<pvc, run, dcArg, allocs, before, pvc0, snap, job>>
    /\ EnvUnchanged

\* PvToJob on the volume that registering returned, or on none
Resolve(c) ==
    /\ pc[c] = "registered"
    /\ \E pv \in {status[c].ret.pv, NilPv} :
           LET r == PvToJob(pv)
           IN  /\ status' = [status EXCEPT ![c] =
                                [op |-> "PvToJob", arg |-> pv, ret |-> r]]
               /\ Return(c, "resolve", r.err, "resolved")
    /\ UNCHANGED <<pvc, run, dcArg, allocs, before, pvc0, snap, job>>
    /\ EnvUnchanged

\* the jobs JobToPv is handed for call c: the job as the orchestrator
\* reports it, or the job PvToJob made of the volume
ReadJobs(c) ==
    ObservedJobs(job[c])
    \cup (IF pc[c] = "resolved" THEN {status[c].ret.job} ELSE {})

\* the job is read back and JobToPv turns it into a volume
Info(c) ==
    /\ pc[c] \in {"registered", "resolved"}
    /\ \E j \in ReadJobs(c) :
           LET r == JobToPv(j)
           IN  /\ status' = [status EXCEPT ![c] =
                                [op |-> "JobToPv", arg |-> j, ret |-> r]]
               /\ Return(c, "info", r.err, "read")
    /\ UNCHANGED <<pvc, run, dcArg, allocs, before, pvc0, snap, job>>
    /\ EnvUnchanged

NextXform ==
    \/ \E c \in Calls : JobName(c)
    \/ \E c \in Calls : Build(c)
    \/ \E c \in Calls : Register(c)
    \/ \E c \in Calls : Resolve(c)
    \/ \E c \in Calls : Info(c)

SpecXform == InitXform /\ [][NextXform]_vars

-----------------------------------------------------------------------------
(* Properties *)

Labels(c) == pvc[c].Labels

\* call c has come through setCN without an error in its current run
Resolved(c) == pc[c] \in {"place", "done"} \/ (pc[c] = "failed" /\ err[c].step = "place")

\* the GetAvailableIPs calls of the latest setCN of call c
LastCalls(c) == SubSeq(allocs[c], before[c].nallocs + 1, Len(allocs[c]))

\* the addresses of a comma separated list; the empty list has none
Addresses(v) == IF v = Empty THEN <<>> ELSE Split(v)

PropertyKeys ==
    {RegionLbl, DatacenterLbl, JivaFrontEndImageLbl, CNTypeLbl,
     CNNetworkCIDRAddrLbl, CNSubnetLbl, CNInterfaceLbl, PVPPersistenceLocationLbl,
     PVPReplicaCountLbl, CSReplicaCountLbl, JivaFrontEndIPLbl, JivaBackEndAllIPsLbl}

\* C1: a property key that is non-empty on the claim as supplied keeps its
\* value through the resolution steps of ProvisionStorage.
C1_NeverOverwritten ==
    \A c \in Calls : \A k \in PropertyKeys :
        pvc0[c][k] # Empty => Labels(c)[k] = pvc0[c][k]

\* the value the precedence rule picks from claim, configuration and default
Precedence(own, configured, default) ==
    IF own # Empty THEN own ELSE IF configured # Empty THEN configured ELSE default

\* call c has come through setCS without an error in its current run
PastSetCS(c) ==
    \/ pc[c] \in {"setCN", "place", "done"}
    \/ pc[c] = "failed" /\ err[c].step \in {"setCN", "place"}

DCEntryOf(c) == nomadConf.Datacenter[dcArg[c]]

\* C2: a property resolved from the datacenter scoped source is the claim's
\* own value if that is non-empty, else the configured value of the
\* datacenter if that is non-empty, else the built-in default.
C2_Precedence ==
    \A c \in Calls :
        /\ PastSetCS(c) =>
              /\ Labels(c)[PVPPersistenceLocationLbl] =
                     Precedence(pvc0[c][PVPPersistenceLocationLbl],
                                DCEntryOf(c).CSPersistenceLocation,
                                DefaultNomadCSPersistenceLocation)
              /\ Labels(c)[PVPReplicaCountLbl] =
                     Precedence(pvc0[c][PVPReplicaCountLbl],
                                DCEntryOf(c).CSReplicaCount,
                                DefaultNomadCSReplicaCount)
        /\ Resolved(c) =>
              /\ Labels(c)[CNTypeLbl] =
                     Precedence(pvc0[c][CNTypeLbl], DCEntryOf(c).CNType,
                                DefaultNomadCNType)
              /\ Labels(c)[CNNetworkCIDRAddrLbl] =
                     Precedence(pvc0[c][CNNetworkCIDRAddrLbl],
                                DCEntryOf(c).CNNetworkCIDR,
                                DefaultNomadCNNetworkCIDR)
              /\ Labels(c)[CNInterfaceLbl] =
                     Precedence(pvc0[c][CNInterfaceLbl], DCEntryOf(c).CNInterface,
                                DefaultNomadCNInterface)

\* a resolved claim on which one key came from the claim although the
\* datacenter configures it, and another came from the configuration
C2_Witness ==
    \E c \in Calls :
        /\ Resolved(c)
        /\ pvc0[c][CNTypeLbl] # Empty
        /\ DCEntryOf(c).CNType \notin {Empty, pvc0[c][CNTypeLbl]}
        /\ pvc0[c][PVPPersistenceLocationLbl] = Empty
        /\ DCEntryOf(c).CSPersistenceLocation # Empty
        /\ Labels(c)[PVPPersistenceLocationLbl] = DCEntryOf(c).CSPersistenceLocation

RequiredKeys ==
    {RegionLbl, DatacenterLbl, JivaFrontEndImageLbl, JivaFrontEndIPLbl,
     JivaBackEndAllIPsLbl, PVPReplicaCountLbl, CNTypeLbl, CNNetworkCIDRAddrLbl,
     CNSubnetLbl, CNInterfaceLbl, PVPPersistenceLocationLbl}

FullyResolved(l) == \A k \in RequiredKeys : l[k] # Empty

\* C3: a second run of ProvisionStorage on a claim the first run fully
\* resolved gets through resolution and allocation again, calls
\* GetAvailableIPs not once, and leaves every label as the first run left it.
C3_Idempotent ==
    \A c \in Calls :
        (run[c] >= 2 /\ snap[c].taken /\ FullyResolved(snap[c].labels)) =>
            /\ Labels(c) = snap[c].labels
            /\ Len(allocs[c]) = snap[c].nallocs
            /\ pc[c] = "failed" => err[c].step = "place"

\* a second run has come through setCN on a claim for which the first run
\* had drawn addresses
C3_Witness ==
    \E c \in Calls :
        /\ run[c] = 2 /\ Resolved(c)
        /\ snap[c].taken /\ FullyResolved(snap[c].labels)
        /\ snap[c].nallocs = 1
        /\ pvc0[c][JivaFrontEndIPLbl] = Empty

\* the replica count allocation works with
ReplicaCount(l) == Atoi(l[CSReplicaCountLbl])

\* the entries of a list, no two of them equal
Distinct(seq) == \A i, j \in DOMAIN seq : i # j => seq[i] # seq[j]

InSubnet(v, cidr) == \E i \in DOMAIN Hosts(cidr) : v = S(Hosts(cidr)[i])

\* C4: after a successful setCN on a claim with replica count r the claim
\* carries a frontend IP and exactly r backend IPs, pairwise distinct and
\* all within the subnet.
C4_AllocationShape ==
    \A c \in Calls :
        (Resolved(c) /\ AtoiOk(Labels(c)[CSReplicaCountLbl])) =>
            LET fe  == Labels(c)[JivaFrontEndIPLbl]
                bes == Addresses(Labels(c)[JivaBackEndAllIPsLbl])
                all == <<fe>> \o bes
            IN  /\ fe # Empty
                /\ Len(bes) = ReplicaCount(Labels(c))
                /\ Distinct(all)
                /\ \A i \in DOMAIN all :
                       InSubnet(all[i], Labels(c)[CNNetworkCIDRAddrLbl])

\* the addresses of a GetAvailableIPs result as label values
AsValues(ips) == [i \in DOMAIN ips |-> S(ips[i])]

\* C5: setCN on a claim with a frontend IP and no backend IPs draws exactly
\* r addresses as the backend list and keeps the frontend IP; with only the
\* frontend IP missing it draws exactly one address and keeps the backend
\* list; with both present it draws nothing and changes neither.
C5_PartialAllocation ==
    \A c \in Calls :
        Resolved(c) =>
            LET b     == before[c].labels
                l     == Labels(c)
                calls == LastCalls(c)
            IN  /\ (b[JivaFrontEndIPLbl] # Empty /\ b[JivaBackEndAllIPsLbl] = Empty) =>
                       /\ l[JivaFrontEndIPLbl] = b[JivaFrontEndIPLbl]
                       /\ Len(calls) = 1
                       /\ calls[1].count = ReplicaCount(b)
                       /\ Len(calls[1].ips) = ReplicaCount(b)
                       /\ Addresses(l[JivaBackEndAllIPsLbl]) = AsValues(calls[1].ips)
                /\ (b[JivaFrontEndIPLbl] = Empty /\ b[JivaBackEndAllIPsLbl] # Empty) =>
                       /\ l[JivaBackEndAllIPsLbl] = b[JivaBackEndAllIPsLbl]
                       /\ Len(calls) = 1
                       /\ calls[1].count = 1
                       /\ l[JivaFrontEndIPLbl] \in Range(AsValues(calls[1].ips))
                /\ (b[JivaFrontEndIPLbl] # Empty /\ b[JivaBackEndAllIPsLbl] # Empty) =>
                       /\ calls = <<>>
                       /\ l[JivaFrontEndIPLbl] = b[JivaFrontEndIPLbl]
                       /\ l[JivaBackEndAllIPsLbl] = b[JivaBackEndAllIPsLbl]

\* setCN has filled in the backend list of a claim that came with a
\* frontend IP only
C5_Witness ==
    \E c \in Calls :
        /\ Resolved(c)
        /\ before[c].labels[JivaFrontEndIPLbl] # Empty
        /\ before[c].labels[JivaBackEndAllIPsLbl] = Empty
        /\ Len(Addresses(Labels(c)[JivaBackEndAllIPsLbl])) = MaxReplica

\* C6: on a partially filled claim the addresses setCN newly draws differ
\* from the ones the claim already carries.
C6_NoConflictOnRetry ==
    \A c \in Calls :
        Resolved(c) =>
            LET b == before[c].labels
                l == Labels(c)
            IN  /\ (b[JivaFrontEndIPLbl] # Empty /\ b[JivaBackEndAllIPsLbl] = Empty) =>
                       b[JivaFrontEndIPLbl] \notin Range(Addresses(l[JivaBackEndAllIPsLbl]))
                /\ (b[JivaFrontEndIPLbl] = Empty /\ b[JivaBackEndAllIPsLbl] # Empty) =>
                       l[JivaFrontEndIPLbl] \notin Range(Addresses(b[JivaBackEndAllIPsLbl]))

\* setCN has run in the current run of call c, with or without an error
SetCNRan(c) == Resolved(c) \/ (pc[c] = "failed" /\ err[c].step = "setCN")

\* the number of addresses of the claim's network that are still free
Free(c) == Len(Filter(Hosts(Labels(c)[CNNetworkCIDRAddrLbl]), inUse))

PoolExhausted(c) ==
    /\ pc[c] = "failed"
    /\ err[c] = [step |-> "setCN", kind |-> "AddressPoolExhausted"]
    /\ Labels(c)[JivaFrontEndIPLbl] = before[c].labels[JivaFrontEndIPLbl]
    /\ Labels(c)[JivaBackEndAllIPsLbl] = before[c].labels[JivaBackEndAllIPsLbl]

Needed(l) ==
    IF l[JivaFrontEndIPLbl] = Empty /\ l[JivaBackEndAllIPsLbl] = Empty
    THEN 1 + ReplicaCount(l)
    ELSE IF l[JivaFrontEndIPLbl] = Empty THEN 1
    ELSE IF l[JivaBackEndAllIPsLbl] = Empty THEN ReplicaCount(l)
    ELSE 0

Assigned(c) ==
    {Labels(c)[JivaFrontEndIPLbl]} \cup Range(Addresses(Labels(c)[JivaBackEndAllIPsLbl]))

\* C8: two provisioning calls that run at the same time against the same
\* network and both succeed hold disjoint sets of addresses.
C8_DisjointAllocations ==
    \A c, d \in Calls :
        (c # d /\ pc[c] = "done" /\ pc[d] = "done") => Assigned(c) \cap Assigned(d) = {}

\* StoragePlacementReq has run in the current run of call c
PlaceRan(c) == pc[c] = "done" \/ (pc[c] = "failed" /\ err[c].step = "place")

ReplicaIPCount(l) == Len(Split(l[PVPReplicaIPsLbl]))

\* the claim names replica IPs, and not as many as its replica count says
CountsDiffer(l) ==
    /\ l[PVPReplicaIPsLbl] # Empty
    /\ AtoiOk(l[PVPReplicaCountLbl])
    /\ ReplicaIPCount(l) # Atoi(l[PVPReplicaCountLbl])

BuilderRequired ==
    {OrchRegionLbl, OrchDCLbl, PVPControllerImageLbl, PVPControllerIPsLbl,
     PVPReplicaIPsLbl, CNTypeLbl, CNSubnetLbl, CNInterfaceLbl,
     PVPPersistenceLocationLbl, PVPStorageSizeLbl}

ExplicitMismatch(l) ==
    \/ /\ l[PVPReplicaIPsLbl] # Empty
       /\ AtoiOk(l[PVPReplicaCountLbl])
       /\ Len(Split(l[PVPReplicaIPsLbl])) # Atoi(l[PVPReplicaCountLbl])
    \/ /\ l[JivaBackEndAllIPsLbl] # Empty
       /\ AtoiOk(l[CSReplicaCountLbl])
       /\ Len(Split(l[JivaBackEndAllIPsLbl])) # Atoi(l[CSReplicaCountLbl])

\* C10: on a claim whose explicit replica IPs disagree in number with its
\* replica count the mismatch is reported during resolution: no
\* GetAvailableIPs call is ever made, no IP label is ever written, and the
\* run never succeeds.
C10_MismatchBeforeAllocation ==
    \A c \in Calls :
        ExplicitMismatch(pvc0[c]) =>
            /\ allocs[c] = <<>>
            /\ Labels(c)[JivaFrontEndIPLbl] = pvc0[c][JivaFrontEndIPLbl]
            /\ Labels(c)[JivaBackEndAllIPsLbl] = pvc0[c][JivaBackEndAllIPsLbl]
            /\ pc[c] # "done"
            /\ (pc[c] = "failed" /\ err[c].kind = "ReplicaIPCountMismatch")
                   => err[c].step \in {"begin", "setRegion", "setDC", "setCS"}

\* the errors PvcToJob returns for a required label that is empty
MissingKinds ==
    {"MissingRegion", "MissingDatacenter", "MissingControllerImage",
     "MissingControllerIPs", "MissingReplicaIPs", "MissingCNType",
     "MissingCNSubnet", "MissingCNInterface", "MissingPersistenceLocation",
     "MissingStorageSize"}

\* C11: once the resolution and allocation steps of ProvisionStorage have
\* succeeded, every label PvcToJob requires, the replica count included, is
\* non-empty on the claim, and PvcToJob does not fail for a missing label.
C11_BuilderKeysPresent ==
    \A c \in Calls :
        /\ Resolved(c) =>
               \A k \in BuilderRequired \cup {PVPReplicaCountLbl} : Labels(c)[k] # Empty
        /\ PlaceRan(c) => err[c].kind \notin MissingKinds

-----------------------------------------------------------------------------
(* Properties of the transformations *)

\* PvcToJob has run on the claim of call c
Built(c) == pc[c] # "build"

\* the error PvcToJob returned, "" for none
BuildErr(c) == IF pc[c] = "failed" /\ err[c].step = "build" THEN err[c].kind ELSE ""

\* the claim of call c is there, has a name and has a label map
WellFormed(c) ==
    /\ "nilPvc" \notin DOMAIN pvc[c]
    /\ pvc[c].Name # Empty
    /\ ~pvc[c].LabelsNil

\* the required keys in their fixed order, each with its missing-property error
RequiredOrder ==
    <<[key |-> OrchRegionLbl,             kind |-> "MissingRegion"],
      [key |-> OrchDCLbl,                 kind |-> "MissingDatacenter"],
      [key |-> PVPControllerImageLbl,     kind |-> "MissingControllerImage"],
      [key |-> PVPControllerIPsLbl,       kind |-> "MissingControllerIPs"],
      [key |-> PVPReplicaIPsLbl,          kind |-> "MissingReplicaIPs"],
      [key |-> CNTypeLbl,                 kind |-> "MissingCNType"],
      [key |-> CNSubnetLbl,               kind |-> "MissingCNSubnet"],
      [key |-> CNInterfaceLbl,            kind |-> "MissingCNInterface"],
      [key |-> PVPPersistenceLocationLbl, kind |-> "MissingPersistenceLocation"],
      [key |-> PVPStorageSizeLbl,         kind |-> "MissingStorageSize"]>>

\* the positions of RequiredOrder whose key is empty in l
Absent(l) == {i \in DOMAIN RequiredOrder : l[RequiredOrder[i].key] = Empty}

\* the error names the first absent key of the fixed order
NamesFirstAbsent(c) ==
    LET a == Absent(pvc[c].Labels)
    IN  a # {} => \E i \in a : /\ \A j \in a : i <= j
                                /\ BuildErr(c) = RequiredOrder[i].kind

\* C12: when required keys are absent the error of PvcToJob names the first
\* absent one in the order region, datacenter, controller image, controller
\* IPs, replica IPs, network type, subnet, interface, persistence location,
\* storage size; when only the replica count is absent the error is a
\* missing-property error for the replica count.
C12_FirstAbsentKey ==
    \A c \in Calls :
        (Built(c) /\ WellFormed(c)) =>
            /\ NamesFirstAbsent(c)
            /\ (Absent(pvc[c].Labels) = {} /\ pvc[c].Labels[PVPReplicaCountLbl] = Empty)
                   => BuildErr(c) = "MissingReplicaCount"

\* the claim as the caller supplied it carries no controller image
NoControllerImage(c) ==
    /\ pvc0[c][PVPControllerImageLbl] = Empty
    /\ pvc0[c][JivaFrontEndImageLbl] = Empty

Incomplete(c) ==
    \/ ~WellFormed(c)
    \/ \E i \in DOMAIN RequiredOrder : pvc[c].Labels[RequiredOrder[i].key] = Empty
    \/ pvc[c].Labels[PVPReplicaCountLbl] = Empty

\* C14: PvcToJob returns a job and no error, or an error and no job; a claim
\* that is nil, has no name, has no label map or lacks a required label or
\* the replica count gets an error and no job; no job is built from an
\* empty value: name, region, datacenters, metadata and the environment of
\* every task are non-empty throughout.
C14_JobOrError ==
    \A c \in Calls :
        Built(c) =>
            /\ (BuildErr(c) = "") # job[c].nil
            /\ Incomplete(c) => (BuildErr(c) # "" /\ job[c].nil)
            /\ ~job[c].nil =>
                   /\ job[c].Name # Empty /\ job[c].ID # Empty
                   /\ job[c].Region # Empty
                   /\ \A i \in DOMAIN job[c].Datacenters : job[c].Datacenters[i] # Empty
                   /\ \A k \in DOMAIN job[c].Meta : job[c].Meta[k] # Empty
                   /\ \A g \in DOMAIN job[c].TaskGroups :
                          LET env == job[c].TaskGroups[g].Tasks[1].Env
                          IN  \A k \in DOMAIN env : env[k] # Empty

\* the replica IPs of the claim of call c, in the order of the label
ReplicaIPs(c) == Split(pvc[c].Labels[PVPReplicaIPsLbl])

\* C15: a job PvcToJob returns has exactly two task groups, the frontend
\* group with count 1 and the backend group with the parsed replica count
\* of the claim as its count, which is the number of replica IPs as well.
C15_TwoGroups ==
    \A c \in Calls :
        (Built(c) /\ ~job[c].nil) =>
            /\ Len(job[c].TaskGroups) = 2
            /\ job[c].TaskGroups[1].Name = "fe-jiva-pod"
            /\ job[c].TaskGroups[1].Count = 1
            /\ job[c].TaskGroups[2].Name = "be-jiva-pod"
            /\ AtoiOk(pvc[c].Labels[PVPReplicaCountLbl])
            /\ job[c].TaskGroups[2].Count = Atoi(pvc[c].Labels[PVPReplicaCountLbl])
            /\ job[c].TaskGroups[2].Count = Len(ReplicaIPs(c))

\* a job with a single replica has been built
C15_Witness ==
    \E c \in Calls :
        /\ Built(c) /\ ~job[c].nil
        /\ job[c].TaskGroups[2].Count = 1
        /\ pvc[c].Labels[PVPReplicaIPsLbl] = S(Host(2))

\* the constraints of a task group that ask for distinct hosts
DistinctHosts(group) ==
    {i \in DOMAIN group.Constraints : group.Constraints[i].Operand = "distinct_hosts"}

\* C16: in a job PvcToJob returns the backend task group carries the
\* distinct hosts constraint and the frontend task group does not.
C16_AntiAffinity ==
    \A c \in Calls :
        (Built(c) /\ ~job[c].nil) =>
            /\ DistinctHosts(job[c].TaskGroups[2]) # {}
            /\ \A i \in DistinctHosts(job[c].TaskGroups[2]) :
                   job[c].TaskGroups[2].Constraints[i].RTarget = "true"
            /\ DistinctHosts(job[c].TaskGroups[1]) = {}
            /\ \A i \in DOMAIN job[c].Constraints :
                   job[c].Constraints[i].Operand # "distinct_hosts"

\* a job with as many replicas as the model allows has been built
C16_Witness ==
    \E c \in Calls :
        /\ Built(c) /\ ~job[c].nil
        /\ job[c].TaskGroups[2].Count = MaxReplica
        /\ job[c].TaskGroups[2].Tasks[1].Name = "be"

\* the keys of map m that are backend IP entries
BackEndIPKeys(m) == {k \in DOMAIN m : k[1] = JivaBackEndIPPrefixLbl}

\* map m holds the replica IPs ips under their ordinals 0..r-1 and no other
\* backend IP entry
HoldsReplicaIPs(m, ips, r) ==
    /\ \A i \in 0..(r - 1) :
           \E k \in BackEndIPKeys(m) :
               /\ AtoiOk(Tail(k)) /\ Atoi(Tail(k)) = i
               /\ m[k] = ips[i + 1]
    /\ \A k \in BackEndIPKeys(m) : AtoiOk(Tail(k)) /\ Atoi(Tail(k)) \in 0..(r - 1)
    /\ Cardinality(BackEndIPKeys(m)) = r

\* C17: the metadata of a job PvcToJob returns with replica count r holds r
\* as the realized replica count and, for each i in 0..r-1, one backend IP
\* entry keyed by ordinal i whose value is the i-th replica IP of the claim;
\* it holds no backend IP entry for an ordinal of r or more, and the backend
\* task environment holds the same entries.
C17_BackEndIPEntries ==
    \A c \in Calls :
        (Built(c) /\ ~job[c].nil) =>
            LET r    == job[c].TaskGroups[2].Count
                meta == job[c].Meta
                env  == job[c].TaskGroups[2].Tasks[1].Env
            IN  /\ S(PVPReplicaCountLbl) \in DOMAIN meta
                /\ AtoiOk(meta[S(PVPReplicaCountLbl)])
                /\ Atoi(meta[S(PVPReplicaCountLbl)]) = r
                /\ HoldsReplicaIPs(meta, ReplicaIPs(c), r)
                /\ HoldsReplicaIPs(env, ReplicaIPs(c), r)
                /\ BackEndIPKeys(job[c].TaskGroups[1].Tasks[1].Env) = {}

\* a job has been built whose metadata name two different replica IPs
C17_Witness ==
    \E c \in Calls :
        /\ Built(c) /\ ~job[c].nil
        /\ Cardinality(BackEndIPKeys(job[c].Meta)) >= 2
        /\ \E k1, k2 \in BackEndIPKeys(job[c].Meta) : job[c].Meta[k1] # job[c].Meta[k2]

\* the annotation keys JobEvalToPv writes
EvalKeys ==
    {S("evalpriority"), S("evaltype"), S("evaltrigger"), S("evaljob"),
     S("evalstatus"), S("evalstatusdesc"), S("evalblockedeval")}

\* annotations ann are the fields of evaluation e, the priority as a
\* decimal string
EvalSourced(ann, e) ==
    /\ DOMAIN ann = EvalKeys
    /\ AtoiOk(ann[S("evalpriority")])
    /\ Atoi(ann[S("evalpriority")]) = e.Priority
    /\ ann[S("evaltype")] = e.Type
    /\ ann[S("evaltrigger")] = e.TriggeredBy
    /\ ann[S("evaljob")] = e.JobID
    /\ ann[S("evalstatus")] = e.Status
    /\ ann[S("evalstatusdesc")] = e.StatusDescription
    /\ ann[S("evalblockedeval")] = e.BlockedEval

\* C18: for an evaluation that is not nil JobEvalToPv returns a volume
\* whose status has the status description of the evaluation as message
\* and its status as reason, and whose annotations hold priority (as a
\* string), type, trigger, job id, status, status description and blocked
\* evaluation of the evaluation; for a nil evaluation it returns an error
\* and no volume.
C18_EvalMapping ==
    \A c \in Calls :
        status[c].op = "JobEvalToPv" =>
            LET e == status[c].arg
                r == status[c].ret
            IN  IF e.nil THEN r.err # "" /\ r.pv.nil
                ELSE /\ r.err = "" /\ ~r.pv.nil
                     /\ r.pv.Status.Message = e.StatusDescription
                     /\ r.pv.Status.Reason = e.Status
                     /\ EvalSourced(r.pv.Annotations, e)

\* the evaluation {status: complete, statusDescription: ok, priority: 50}
\* has been turned into a volume
C18_Witness ==
    \E c \in Calls :
        /\ status[c].op = "JobEvalToPv"
        /\ ~status[c].arg.nil
        /\ status[c].arg.Priority = 50
        /\ status[c].arg.Status = S("complete")
        /\ status[c].ret.pv.Status.Message = S("ok")

\* C19: the volume JobToPv produces for a job carries the metadata of the
\* job as annotations if and only if the status of the job is running; for
\* a job in any other state the annotations are the evaluation-sourced ones
\* (priority, type, trigger, ...), not the metadata and not empty.
C19_AnnotationSource ==
    \A c \in Calls :
        (status[c].op = "JobToPv" /\ status[c].ret.err = "") =>
            LET j  == status[c].arg
                pv == status[c].ret.pv
            IN  /\ (DOMAIN pv.Annotations = DOMAIN j.Meta /\ pv.Annotations = j.Meta)
                       <=> (j.Status.val = JobStatusRunning)
                /\ j.Status.val # JobStatusRunning =>
                       /\ DOMAIN pv.Annotations # {}
                       /\ DOMAIN pv.Annotations = EvalKeys

\* s is the decimal form of a positive integer
PositiveCount(s) == AtoiOk(s) /\ Atoi(s) > 0

\* setCS has run in the current run of call c, with or without an error
SetCSRan(c) == PastSetCS(c) \/ (pc[c] = "failed" /\ err[c].step = "setCS")

\* C20: a replica count that is not a positive integer is turned down where
\* it is consumed: a configured count of that kind fails setCS, a count of
\* that kind on the claim fails setCN in the branches that read it, with no
\* GetAvailableIPs call and no IP label written, and no job has a backend
\* group with a count of zero or less.
C20_PositiveCount ==
    \A c \in Calls :
        /\ (/\ SetCSRan(c)
            /\ dcArg[c] \in DOMAIN nomadConf.Datacenter
            /\ DCEntryOf(c).CSReplicaCount # Empty
            /\ ~PositiveCount(DCEntryOf(c).CSReplicaCount))
               => (pc[c] = "failed" /\ err[c].step = "setCS")
        /\ (/\ SetCNRan(c)
            /\ ParseCIDROk(before[c].labels[CNNetworkCIDRAddrLbl])
            /\ before[c].labels[JivaBackEndAllIPsLbl] = Empty
            /\ ~PositiveCount(before[c].labels[CSReplicaCountLbl]))
               => /\ pc[c] = "failed" /\ err[c].step = "setCN"
                  /\ LastCalls(c) = <<>>
                  /\ Labels(c)[JivaFrontEndIPLbl] = before[c].labels[JivaFrontEndIPLbl]
                  /\ Labels(c)[JivaBackEndAllIPsLbl] = before[c].labels[JivaBackEndAllIPsLbl]
        /\ ~job[c].nil => job[c].TaskGroups[2].Count > 0

\* setCN found neither a frontend IP nor backend IPs on the claim of call c
BothMissing(c) ==
    /\ before[c].labels[JivaFrontEndIPLbl] = Empty
    /\ before[c].labels[JivaBackEndAllIPsLbl] = Empty

\* C21: when the frontend IP and the backend IPs are both missing and
\* GetAvailableIPs returns a0, a1, ..., ar, the frontend IP becomes a0 and
\* the backend IP list becomes a1,...,ar in that order, joined by commas
\* with no comma in front or at the end.
C21_FirstIsFrontEnd ==
    \A c \in Calls :
        (Resolved(c) /\ BothMissing(c)) =>
            LET calls == LastCalls(c)
                be    == Labels(c)[JivaBackEndAllIPsLbl]
            IN  /\ Len(calls) = 1
                /\ calls[1].ips # <<>>
                /\ Labels(c)[JivaFrontEndIPLbl] = S(calls[1].ips[1])
                /\ Addresses(be) = AsValues(Tail(calls[1].ips))
                /\ be # Empty => (be[1] # Comma /\ be[Len(be)] # Comma)
                /\ Cardinality({i \in DOMAIN be : be[i] = Comma})
                       = (IF Len(calls[1].ips) >= 2 THEN Len(calls[1].ips) - 2 ELSE 0)

\* setCN has drawn a frontend IP and as many backend IPs as the model allows
C21_Witness ==
    \E c \in Calls :
        /\ Resolved(c) /\ BothMissing(c)
        /\ Len(LastCalls(c)) = 1
        /\ Len(LastCalls(c)[1].ips) = 1 + MaxReplica
        /\ Len(Addresses(Labels(c)[JivaBackEndAllIPsLbl])) = MaxReplica

-----------------------------------------------------------------------------
(* The default-property source on its own: nomadUtil.CN and nomadUtil.CS
   asked for one datacenter of one configuration *)

\* every combination of set and unset fields of a datacenter's section
ConfEntries ==
    {DCEntry(t, n, i, l, k) :
        t \in {Empty, S("conf-host")}, n \in {Empty, NetCIDR},
        i \in {Empty, S("conf-eth0")}, l \in {Empty, S("/conf/")},
        k \in {Empty, S("0"), S("x"), S("1"), <<"-", "1">>}}

\* the configurations asked: dc1 with each section, the odd ones, and one
\* that holds a section under the empty name
ConfChoices ==
    {Conf(e) : e \in ConfEntries} \cup OddConfs
    \cup {[nil |-> FALSE, dcNil |-> FALSE,
           Datacenter |-> (Empty :> FullEntry) @@ (S("dc1") :> FullEntry)]}

DCNames == {Empty, S("dc1"), S("dc2"), S("dc3")}

InitConf ==
    \E conf \in ConfChoices, dc \in DCNames :
        /\ pvc = <<Claim(VolName, NoLabels)>>
        /\ pc = <<"lookup">>
        /\ err = <<NoError>>
        /\ run = <<1>>
        /\ dcArg = <<dc>>
        /\ allocs = << <<>> >>
        /\ before = <<[labels |-> NoLabels, nallocs |-> 0]>>
        /\ pvc0 = <<NoLabels>>
        /\ snap = <<NoSnap>>
        /\ job = <<NilJob>>
        /\ status = <<NoStatus>>
        /\ nomadConf = conf
        /\ orchRegion = S("global")
        /\ defaultDC = S("dc1")
        /\ orchFault = ""
        /\ inUse = {}

\* a call of op with the datacenter of call c, its result kept in status
Lookup(c, op, ret) ==
    /\ pc[c] = "lookup"
    /\ pc' = [pc EXCEPT ![c] = "looked"]
    /\ status' = [status EXCEPT ![c] = [op |-> op, arg |-> dcArg[c], ret |-> ret]]
    /\ EnvUnchanged
    /\ UNCHANGED <<pvc, err, run, dcArg, allocs, before, pvc0, snap, job>>

\* nomadUtil.CN(dcName)
LookupCN(c) == Lookup(c, "CN", CN(nomadConf, dcArg[c]))

\* nomadUtil.CS(dcName)
LookupCS(c) == Lookup(c, "CS", CS(nomadConf, dcArg[c]))

NextConf ==
    \/ \E c \in Calls : LookupCN(c)
    \/ \E c \in Calls : LookupCS(c)

SpecConf == InitConf /\ [][NextConf]_vars

-----------------------------------------------------------------------------
(* Properties of the default-property source *)

Looked(c) == pc[c] = "looked"

\* the configuration has nothing for the datacenter call c asked about
UnknownDC(c) ==
    \/ dcArg[c] = Empty
    \/ nomadConf.nil
    \/ nomadConf.dcNil
    \/ dcArg[c] \notin DOMAIN nomadConf.Datacenter

\* C22: nomadUtil.CN and nomadUtil.CS return an error and no property map
\* when the datacenter name is empty, the configuration is nil, or the
\* configuration holds no entry for the datacenter; no values are ever
\* returned for a datacenter the configuration does not know.
C22_UnknownDCFails ==
    \A c \in Calls :
        Looked(c) =>
            /\ UnknownDC(c) =>
                  /\ status[c].ret.err # ""
                  /\ DOMAIN status[c].ret.m = {}
            /\ DOMAIN status[c].ret.m # {} => ~UnknownDC(c)

\* CS was asked for a named datacenter the configuration has no section
\* for, and answered with an error
C22_Witness ==
    \E c \in Calls :
        /\ Looked(c) /\ status[c].op = "CS"
        /\ dcArg[c] # Empty /\ ~nomadConf.nil /\ ~nomadConf.dcNil
        /\ DOMAIN nomadConf.Datacenter # {}
        /\ dcArg[c] \notin DOMAIN nomadConf.Datacenter
        /\ status[c].ret.err = "NoDetailsForDC"

\* the configured value, or the built-in default where nothing is configured
ConfiguredOr(configured, default) ==
    IF configured = Empty THEN default ELSE configured

\* the built-in default and the configured value behind each returned key
SourceOf(c) ==
    LET e == nomadConf.Datacenter[dcArg[c]]
    IN  (CNTypeLbl :> <<e.CNType, DefaultNomadCNType>>)
        @@ (CNNetworkCIDRAddrLbl :> <<e.CNNetworkCIDR, DefaultNomadCNNetworkCIDR>>)
        @@ (CNInterfaceLbl :> <<e.CNInterface, DefaultNomadCNInterface>>)
        @@ (PVPPersistenceLocationLbl :>
                <<e.CSPersistenceLocation, DefaultNomadCSPersistenceLocation>>)
        @@ (PVPReplicaCountLbl :> <<e.CSReplicaCount, DefaultNomadCSReplicaCount>>)

\* C26: for every known datacenter, every value in the maps returned by
\* nomadUtil.CN and nomadUtil.CS is non-empty; it is the built-in default
\* where the configured value is empty and the configured value, unchanged,
\* where that is non-empty.
C26_ValuesNonEmpty ==
    \A c \in Calls :
        (Looked(c) /\ ~UnknownDC(c)) =>
            LET m == status[c].ret.m
            IN  /\ status[c].ret.err = "" =>
                      DOMAIN m = (IF status[c].op = "CN"
                                  THEN {CNTypeLbl, CNNetworkCIDRAddrLbl, CNInterfaceLbl}
                                  ELSE {PVPPersistenceLocationLbl, PVPReplicaCountLbl})
                /\ \A k \in DOMAIN m :
                      /\ m[k] # Empty
                      /\ m[k] = ConfiguredOr(SourceOf(c)[k][1], SourceOf(c)[k][2])

\* CS answered for a datacenter that configures a replica count but no
\* persistence location
C26_Witness ==
    \E c \in Calls :
        /\ Looked(c) /\ ~UnknownDC(c) /\ status[c].op = "CS"
        /\ nomadConf.Datacenter[dcArg[c]].CSPersistenceLocation = Empty
        /\ nomadConf.Datacenter[dcArg[c]].CSReplicaCount = S("1")
        /\ status[c].ret.err = ""
        /\ status[c].ret.m[PVPPersistenceLocationLbl] = DefaultNomadCSPersistenceLocation
        /\ status[c].ret.m[PVPReplicaCountLbl] = S("1")

-----------------------------------------------------------------------------
(* Properties of the names *)

\* C23: for every claim with a non-empty name, the job built by PvcToJob
\* has Name and ID both equal to the claim's name, PvcToJobName returns that
\* name, and PvToJob gives a volume of that name a job whose Name and ID are
\* that name again.
C23_NameIsIdentity ==
    \A c \in Calls :
        ("nilPvc" \notin DOMAIN pvc[c] /\ pvc[c].Name # Empty) =>
            /\ status[c].op = "PvcToJobName" =>
                   status[c].ret = [err |-> "", name |-> pvc[c].Name]
            /\ ~job[c].nil =>
                   /\ job[c].Name = pvc[c].Name
                   /\ job[c].ID = pvc[c].Name
            /\ (status[c].op = "PvToJob" /\ ~status[c].arg.nil) =>
                   /\ status[c].ret.err = ""
                   /\ status[c].ret.job.Name = Ptr(status[c].arg.Name)
                   /\ status[c].ret.job.ID = Ptr(status[c].arg.Name)
                   /\ status[c].arg.Name = job[c].Name
                   /\ status[c].ret.job.ID.val = PvcToJobName(pvc[c]).name

\* the job of the second volume name has been built, registered and named
\* again by PvToJob
C23_Witness ==
    \E c \in Calls :
        /\ "nilPvc" \notin DOMAIN pvc[c] /\ pvc[c].Name = S("vol2")
        /\ ~job[c].nil /\ job[c].ID = S("vol2")
        /\ status[c].op = "PvToJob" /\ ~status[c].arg.nil
        /\ status[c].ret.job.ID = Ptr(S("vol2"))

\* C27: JobToPv returns an error or a volume for every job and never fails
\* at runtime, also for a job whose name, status or status description is
\* unset, such as the job PvToJob makes.
C27_NoRuntimeFailure ==
    \A c \in Calls :
        status[c].op = "JobToPv" =>
            /\ status[c].ret.err # "panic"
            /\ status[c].ret.err = "" <=> ~status[c].ret.pv.nil

-----------------------------------------------------------------------------
(* The HTTP layer in front of the pipeline: HTTPServer.volumeProvision
   decodes the claim, looks the volume plugin up and hands the claim to its
   provisioner, which runs ProvisionStorage *)

\* decodeBody, its error
decodeBody(fault) == IF fault = "DecodeBody" THEN "BadRequest" ELSE ""

\* volumeprovisioner.GetVolumePlugin, its error
GetVolumePlugin(fault) == IF fault = "GetVolumePlugin" THEN fault ELSE ""

\* jivaStor.Provisioner(), second result
Provisioner(fault) == fault # "NoProvisioner"

\* what can be wrong in front of the pipeline
HTTPEnvs ==
    {Env(Conf(FullEntry), S("global"), S("dc1"), f, {}) :
        f \in {"DecodeBody", "GetVolumePlugin", "NoProvisioner"}}

HTTPScenarios == Scenarios \cup (PlainClaims \X HTTPEnvs)

InitHTTP ==
    \E sc \in HTTPScenarios :
        /\ pvc = <<sc[1]>>
        /\ pc = <<"provision">>
        /\ err = <<NoError>>
        /\ run = <<1>>
        /\ dcArg = <<Empty>>
        /\ allocs = << <<>> >>
        /\ before = <<[labels |-> sc[1].Labels, nallocs |-> 0]>>
        /\ pvc0 = <<sc[1].Labels>>
        /\ snap = <<NoSnap>>
        /\ job = <<NilJob>>
        /\ status = <<NoStatus>>
        /\ nomadConf = sc[2].nomadConf
        /\ orchRegion = sc[2].orchRegion
        /\ defaultDC = sc[2].defaultDC
        /\ orchFault = sc[2].orchFault
        /\ inUse = sc[2].inUse

\* volumeProvision up to the call of Provision. The error of GetVolumePlugin
\* is assigned and never read: the plugin it came with is used as it is, and
\* calling Provisioner on a nil plugin panics
volumeProvision(c) ==
    /\ pc[c] = "provision"
    /\ \E nilPlugin \in (IF GetVolumePlugin(orchFault) # "" THEN BOOLEAN ELSE {FALSE}) :
           LET e == IF decodeBody(orchFault) # "" THEN decodeBody(orchFault)
                    ELSE IF pvc[c].Name = Empty THEN "VolumeNameMissing"
                    ELSE IF nilPlugin THEN "panic"
                    ELSE IF ~Provisioner(orchFault) THEN "ProvisioningNotSupported"
                    ELSE ""
           IN  Return(c, "provision", e, "begin")
    /\ UNCHANGED <<pvc, run, dcArg, allocs, before, pvc0, snap, job, status>>
    /\ EnvUnchanged

NextHTTP ==
    \/ \E c \in Calls : volumeProvision(c)
    \/ \E c \in Calls : Begin(c)
    \/ \E c \in Calls : SetRegion(c)
    \/ \E c \in Calls : SetDC(c)
    \/ \E c \in Calls : SetCS(c)
    \/ \E c \in Calls : SetCN(c)
    \/ \E c \in Calls : Place(c)

SpecHTTP == InitHTTP /\ [][NextHTTP]_vars

-----------------------------------------------------------------------------
(* Properties of a provisioning call as a whole *)

\* call c has returned error kind from step
ReturnedFrom(c, step, kind) ==
    pc[c] = "failed" /\ err[c] = [step |-> step, kind |-> kind]

\* C24: in every provisioning call an error returned by any step (plugin
\* lookup, label and spec initialisation, region, datacenter, storage and
\* network property resolution, allocation) is returned to the immediate
\* caller, no later step runs after it, and the backend submission is never
\* invoked after a failed step.
C24_ErrorsReturned ==
    \A c \in Calls :
        /\ (GetVolumePlugin(orchFault) # "" /\ pc[c] # "provision")
               => ReturnedFrom(c, "provision", GetVolumePlugin(orchFault))
        /\ (GetOrchProvider(orchFault) # "" /\ pc[c] \notin {"provision", "begin"})
               => ReturnedFrom(c, "begin", GetOrchProvider(orchFault))
        /\ pc[c] = "failed" => err[c].kind \notin {"", "panic"}
        /\ (pc[c] = "failed" /\ err[c].step # "place") => job[c] = NilJob

\* setCN found on the claim of call c backend IPs but no frontend IP, and
\* not as many backend IPs as the replica count says
StaleList(c) ==
    LET l == before[c].labels
    IN  /\ l[JivaFrontEndIPLbl] = Empty
        /\ l[JivaBackEndAllIPsLbl] # Empty
        /\ AtoiOk(l[CSReplicaCountLbl])
        /\ Len(Addresses(l[JivaBackEndAllIPsLbl])) # ReplicaCount(l)

\* C25: when setCN is invoked on a partially filled claim whose backend IP
\* list has a number of entries different from the replica count, the call
\* fails with the replica-IP-count-mismatch error, or with the error of a
\* step of setCN before the addresses; it never succeeds with the stale list
\* kept, and never truncates the list.
C25_StaleListRejected ==
    \A c \in Calls :
        (SetCNRan(c) /\ StaleList(c)) =>
            /\ ~Resolved(c)
            /\ Labels(c)[JivaBackEndAllIPsLbl] = before[c].labels[JivaBackEndAllIPsLbl]
            /\ LastCalls(c) = <<>> => err[c].kind # ""

====
